---- MODULE Spec2Model ----
(***************************************************************************)
(* Model of the Relic developer tools: the configuration validator        *)
(* (tools/config_validator.py), the project statistics                     *)
(* (tools/project_stats.py) and the build helper (tools/build.py).         *)
(*                                                                         *)
(* Specifications:                                                         *)
(*   Spec           detect_config_type, validate_config, validate_file     *)
(*   CurveSpec      validate_curve on its own                              *)
(*   DirectorySpec  validate_directory over a listing of files             *)
(*   StatsSpec      collect_stats over a listing of a project tree         *)
(*   BuildSpec      check_prerequisites and generate_build_script          *)
(*                                                                         *)
(* A parsed YAML/JSON value is a record tagged with its Python type:       *)
(*   [t |-> "str",   s |-> "abc"]                                          *)
(*   [t |-> "int",   n |-> 5]                                              *)
(*   [t |-> "float", n |-> 1, d |-> 10]      the float n/d (d > 0)         *)
(*   [t |-> "bool",  b |-> TRUE]                                           *)
(*   [t |-> "NoneType"]                                                    *)
(*   [t |-> "list",  items |-> <<v1, v2>>]                                 *)
(*   [t |-> "tuple", items |-> <<v1, v2>>]   an entry of !!pairs or !!omap *)
(*   [t |-> "dict",  entries |-> <<[k |-> "name", v |-> v1], ...>>]        *)
(* A dict keeps its entries in insertion order, as Python does.            *)
(* A message is the f-string that builds it: its template and the values   *)
(* interpolated into it (a plain string is a template without values).     *)
(***************************************************************************)
EXTENDS Integers, Sequences, FiniteSets, TLC

VARIABLES
    file,      \* the file under validation: its path and what load_config_file returns for it
    pc,        \* "ready" before the call, "done" after it
    call,      \* the function called and the config type passed to it
    result,    \* the ValidationResult the call fills
    ret,       \* what detect_config_type returned
    exc,       \* the exception that escaped the call, "None" if none did
    input,     \* the arguments of a call that takes no single config file
    output     \* what such a call returned

vars == <<file, pc, call, result, ret, exc, input, output>>

--------------------------------------------------------------------------
(* Python values *)

PyStr(chars) == [t |-> "str", s |-> chars]
PyInt(n) == [t |-> "int", n |-> n]
PyFloat(n, d) == [t |-> "float", n |-> n, d |-> d]
PyBool(b) == [t |-> "bool", b |-> b]
PyNone == [t |-> "NoneType"]
PyList(items) == [t |-> "list", items |-> items]
PyTuple(items) == [t |-> "tuple", items |-> items]
PyDict(entries) == [t |-> "dict", entries |-> entries]

\* type(value).__name__
TypeName(value) == value.t

\* isinstance with bool no subclass of int
IsInstance1Exact(value, cls) == value.t = cls

\* isinstance(value, cls) for one class; bool is a subclass of int
IsInstance1(value, cls) ==
    \/ value.t = cls
    \/ cls = "int" /\ value.t = "bool"

\* isinstance(value, classes), classes a tuple of classes
IsInstance(value, classes) == \E i \in DOMAIN classes : IsInstance1(value, classes[i])

\* the numerator and the denominator of a numeric value (True is 1, False is 0)
Numer(value) == IF value.t = "bool" THEN (IF value.b THEN 1 ELSE 0) ELSE value.n
Denom(value) == IF value.t = "float" THEN value.d ELSE 1

\* a < b on numeric values
Less(a, b) == Numer(a) * Denom(b) < Numer(b) * Denom(a)

\* key in data, data[key] and list(data) of a dict
HasKey(dict, key) == \E i \in DOMAIN dict.entries : dict.entries[i].k = key
GetItem(dict, key) ==
    dict.entries[CHOOSE i \in DOMAIN dict.entries : dict.entries[i].k = key].v
Keys(dict) == [i \in DOMAIN dict.entries |-> dict.entries[i].k]

\* str.lower() on ASCII text
UpperCase == <<"A", "B", "C", "D", "E", "F", "G", "H", "I", "J", "K", "L", "M",
               "N", "O", "P", "Q", "R", "S", "T", "U", "V", "W", "X", "Y", "Z">>
LowerCase == <<"a", "b", "c", "d", "e", "f", "g", "h", "i", "j", "k", "l", "m",
               "n", "o", "p", "q", "r", "s", "t", "u", "v", "w", "x", "y", "z">>
LowerChar(c) ==
    IF \E i \in DOMAIN UpperCase : UpperCase[i] = c
    THEN LowerCase[CHOOSE i \in DOMAIN UpperCase : UpperCase[i] = c]
    ELSE c
RECURSIVE lower(_)
lower(text) ==
    IF Len(text) = 0 THEN ""
    ELSE LowerChar(SubSeq(text, 1, 1)) \o lower(SubSeq(text, 2, Len(text)))

\* text.endswith(suffix)
endswith(text, suffix) ==
    /\ Len(text) >= Len(suffix)
    /\ SubSeq(text, Len(text) - Len(suffix) + 1, Len(text)) = suffix

--------------------------------------------------------------------------
(* ConfigType, ValidationError, ValidationResult *)

\* the members of the enum, in definition order
ConfigType == <<"ERA_CONFIG", "UNIT_ARCHETYPE", "WEAPON_STATS", "UPGRADE_DEFINITION">>

\* config_type.value
ConfigTypeValue(config_type) ==
    CASE config_type = "ERA_CONFIG" -> "EraConfig"
      [] config_type = "UNIT_ARCHETYPE" -> "UnitArchetype"
      [] config_type = "WEAPON_STATS" -> "WeaponStats"
      [] config_type = "UPGRADE_DEFINITION" -> "UpgradeDefinition"

ValidationError(path, message, severity) ==
    [path |-> path, message |-> message, severity |-> severity]

\* ValidationResult(file_path=..., config_type=...) with no error and no warning
ValidationResult(file_path, config_type) ==
    [file_path |-> file_path, config_type |-> config_type,
     errors |-> <<>>, warnings |-> <<>>]

is_valid(res) == Len(res.errors) = 0

add_error(res, path, message) ==
    [res EXCEPT !.errors = Append(@, ValidationError(path, message, "error"))]

add_warning(res, path, message) ==
    [res EXCEPT !.warnings = Append(@, ValidationError(path, message, "warning"))]

--------------------------------------------------------------------------
(* SCHEMAS *)

\* an expected type: one class, or a tuple of classes
Class(name) == [is_tuple |-> FALSE, names |-> <<name>>]
Union(names) == [is_tuple |-> TRUE, names |-> names]
IntOrFloat == Union(<<"int", "float">>)

Field(name, type) == [name |-> name, type |-> type]
Range(min, max) == [min |-> min, max |-> max]

SCHEMAS ==
    [c \in {ConfigType[i] : i \in DOMAIN ConfigType} |->
      CASE c = "ERA_CONFIG" ->
          [required_fields |-> <<Field("name", Class("str")),
                                 Field("archetypes", Class("list"))>>,
           optional_fields |-> <<Field("description", Class("str")),
                                 Field("visual_style", Class("str")),
                                 Field("upgrades", Class("list"))>>,
           nested_schemas |-> <<Field("archetypes", "UnitArchetype"),
                                Field("upgrades", "UpgradeDefinition")>>]
        [] c = "UNIT_ARCHETYPE" ->
          [required_fields |-> <<Field("id", Class("str")),
                                 Field("base_health", IntOrFloat),
                                 Field("base_move_speed", IntOrFloat)>>,
           optional_fields |-> <<Field("name", Class("str")),
                                 Field("description", Class("str")),
                                 Field("weapon", Class("str")),
                                 Field("weapon_stats", Class("dict")),
                                 Field("prefab", Class("str"))>>,
           constraints |->
              [f \in {"base_health", "base_move_speed"} |->
                CASE f = "base_health" -> Range(PyInt(0), PyInt(10000))
                  [] f = "base_move_speed" -> Range(PyInt(0), PyInt(100))]]
        [] c = "WEAPON_STATS" ->
          [required_fields |-> <<Field("name", Class("str")),
                                 Field("shots_per_burst", Class("int")),
                                 Field("fire_rate", IntOrFloat),
                                 Field("base_hit_chance", IntOrFloat),
                                 Field("base_damage", IntOrFloat)>>,
           optional_fields |-> <<Field("effective_range", IntOrFloat),
                                 Field("range_curve", Class("list")),
                                 Field("elevation_curve", Class("list")),
                                 Field("description", Class("str"))>>,
           constraints |->
              [f \in {"shots_per_burst", "fire_rate", "base_hit_chance",
                      "base_damage", "effective_range"} |->
                CASE f = "shots_per_burst" -> Range(PyInt(1), PyInt(100))
                  [] f = "fire_rate" -> Range(PyFloat(1, 10), PyInt(100))
                  [] f = "base_hit_chance" -> Range(PyInt(0), PyInt(1))
                  [] f = "base_damage" -> Range(PyInt(0), PyInt(10000))
                  [] f = "effective_range" -> Range(PyInt(0), PyInt(1000))]]
        [] c = "UPGRADE_DEFINITION" ->
          [required_fields |-> <<Field("name", Class("str"))>>,
           optional_fields |-> <<Field("description", Class("str")),
                                 Field("hit_chance_multiplier", IntOrFloat),
                                 Field("damage_multiplier", IntOrFloat),
                                 Field("elevation_bonus", IntOrFloat),
                                 Field("cost", Class("int"))>>,
           constraints |->
              [f \in {"hit_chance_multiplier", "damage_multiplier",
                      "elevation_bonus", "cost"} |->
                CASE f = "hit_chance_multiplier" -> Range(PyInt(0), PyInt(10))
                  [] f = "damage_multiplier" -> Range(PyInt(0), PyInt(10))
                  [] f = "elevation_bonus" -> Range(PyInt(-1), PyInt(1))
                  [] f = "cost" -> Range(PyInt(0), PyInt(100000))]]]

--------------------------------------------------------------------------
(* detect_config_type *)

\* what a function hands back: a return value, or an exception
Return(value) == [exc |-> "None", ret |-> value]
Raise(exception) == [exc |-> exception, ret |-> "None"]

\* the loop over ConfigType from member i on: the matching member, "None" when
\* the loop ends without a match; a type_str without .lower() raises
RECURSIVE MatchTypeField(_, _)
MatchTypeField(type_str, i) ==
    IF i > Len(ConfigType) THEN Return("None")
    ELSE IF type_str.t # "str" THEN Raise("AttributeError")
    ELSE IF lower(ConfigTypeValue(ConfigType[i])) = lower(type_str.s)
         THEN Return(ConfigType[i])
         ELSE MatchTypeField(type_str, i + 1)

\* DetectByFields with the weapon test ahead of the era test
DetectByFieldsWeaponFirst(data) ==
    IF HasKey(data, "shots_per_burst") \/ HasKey(data, "fire_rate")
         THEN "WEAPON_STATS"
    ELSE IF HasKey(data, "archetypes") THEN "ERA_CONFIG"
    ELSE IF HasKey(data, "hit_chance_multiplier") \/ HasKey(data, "damage_multiplier")
         THEN "UPGRADE_DEFINITION"
    ELSE IF HasKey(data, "base_health") \/ HasKey(data, "base_move_speed")
         THEN "UNIT_ARCHETYPE"
    ELSE "None"

\* the heuristics based on required fields
DetectByFields(data) ==
    IF HasKey(data, "archetypes") THEN "ERA_CONFIG"
    ELSE IF HasKey(data, "shots_per_burst") \/ HasKey(data, "fire_rate")
         THEN "WEAPON_STATS"
    ELSE IF HasKey(data, "hit_chance_multiplier") \/ HasKey(data, "damage_multiplier")
         THEN "UPGRADE_DEFINITION"
    ELSE IF HasKey(data, "base_health") \/ HasKey(data, "base_move_speed")
         THEN "UNIT_ARCHETYPE"
    ELSE "None"

\* detect_config_type with the heuristics ahead of the type field
detect_config_type_fields_first(data) ==
    IF DetectByFields(data) # "None" THEN Return(DetectByFields(data))
    ELSE IF HasKey(data, "type") THEN MatchTypeField(GetItem(data, "type"), 1)
    ELSE Return("None")

\* detect_config_type with no heuristics for a document that has a type field
detect_config_type_type_only(data) ==
    IF HasKey(data, "type") THEN MatchTypeField(GetItem(data, "type"), 1)
    ELSE Return(DetectByFields(data))

detect_config_type(data) ==
    LET matched == IF HasKey(data, "type")
                   THEN MatchTypeField(GetItem(data, "type"), 1)
                   ELSE Return("None")
    IN  IF matched.exc # "None" \/ matched.ret # "None" THEN matched
        ELSE Return(DetectByFields(data))

--------------------------------------------------------------------------
(* validate_field_type, validate_constraints, validate_curve *)

Message(fmt, args) == [fmt |-> fmt, args |-> args]

\* sep.join(names)
RECURSIVE Join(_, _)
Join(sep, names) ==
    IF Len(names) = 0 THEN ""
    ELSE IF Len(names) = 1 THEN names[1]
    ELSE names[1] \o sep \o Join(sep, Tail(names))

\* returns [ret, result]: the bool returned and the result with what was appended
validate_field_type(value, expected_type, field_path, res) ==
    IF expected_type.is_tuple
    THEN IF ~IsInstance(value, expected_type.names)
         THEN [ret |-> FALSE,
               result |-> add_error(res, field_path,
                              Message("Expected {type_names}, got {type(value).__name__}",
                                      <<Join(" or ", expected_type.names), TypeName(value)>>))]
         ELSE [ret |-> TRUE, result |-> res]
    ELSE IF ~IsInstance1(value, expected_type.names[1])
         THEN [ret |-> FALSE,
               result |-> add_error(res, field_path,
                              Message("Expected {expected_type.__name__}, got {type(value).__name__}",
                                      <<expected_type.names[1], TypeName(value)>>))]
         ELSE [ret |-> TRUE, result |-> res]

IsNumber(value) == IsInstance(value, <<"int", "float">>)

\* BelowMinimum with the minimum itself rejected
BelowMinimumExclusive(value, constraints, field_path, res) ==
    IF "min" \in DOMAIN constraints /\ ~Less(constraints.min, value)
    THEN add_error(res, field_path,
             Message("Value {value} is below minimum {constraints['min']}",
                     <<value, constraints.min>>))
    ELSE res

BelowMinimum(value, constraints, field_path, res) ==
    IF "min" \in DOMAIN constraints /\ Less(value, constraints.min)
    THEN add_error(res, field_path,
             Message("Value {value} is below minimum {constraints['min']}",
                     <<value, constraints.min>>))
    ELSE res

\* AboveMaximum with the maximum itself rejected
AboveMaximumExclusive(value, constraints, field_path, res) ==
    IF "max" \in DOMAIN constraints /\ ~Less(value, constraints.max)
    THEN add_error(res, field_path,
             Message("Value {value} exceeds maximum {constraints['max']}",
                     <<value, constraints.max>>))
    ELSE res

AboveMaximum(value, constraints, field_path, res) ==
    IF "max" \in DOMAIN constraints /\ Less(constraints.max, value)
    THEN add_error(res, field_path,
             Message("Value {value} exceeds maximum {constraints['max']}",
                     <<value, constraints.max>>))
    ELSE res

validate_constraints(value, constraints, field_path, res) ==
    IF ~IsNumber(value) THEN res
    ELSE AboveMaximum(value, constraints, field_path,
             BelowMinimum(value, constraints, field_path, res))

\* one curve point, at index (counted from 0)
ValidatePoint(point, point_path, res) ==
    IF ~IsInstance(point, <<"list", "tuple">>) \/ Len(point.items) # 2
    THEN add_error(res, point_path, Message("Each curve point must be [x, y]", <<>>))
    ELSE LET x_val == point.items[1]
             y_val == point.items[2]
             afterX == IF ~IsNumber(x_val)
                       THEN add_error(res, point_path \o "[0]",
                                Message("X value must be numeric, got {type(x_val).__name__}",
                                        <<TypeName(x_val)>>))
                       ELSE res
         IN  IF ~IsNumber(y_val)
             THEN add_error(afterX, point_path \o "[1]",
                      Message("Y value must be numeric, got {type(y_val).__name__}",
                              <<TypeName(y_val)>>))
             ELSE afterX

\* ValidatePoints that stops at the first element that is no pair
RECURSIVE ValidatePointsFailFast(_, _, _, _)
ValidatePointsFailFast(curve, index, field_path, res) ==
    IF index >= Len(curve.items) THEN res
    ELSE LET point == curve.items[index + 1]
             checked == ValidatePoint(point, field_path \o "[" \o ToString(index) \o "]", res)
         IN  IF ~IsInstance(point, <<"list", "tuple">>) \/ Len(point.items) # 2
             THEN checked
             ELSE ValidatePointsFailFast(curve, index + 1, field_path, checked)

RECURSIVE ValidatePoints(_, _, _, _)
ValidatePoints(curve, index, field_path, res) ==
    IF index >= Len(curve.items) THEN res
    ELSE ValidatePoints(curve, index + 1, field_path,
             ValidatePoint(curve.items[index + 1],
                           field_path \o "[" \o ToString(index) \o "]", res))

validate_curve(curve, field_path, res) ==
    IF ~IsInstance1(curve, "list")
    THEN add_error(res, field_path, Message("Curve must be a list of [x, y] pairs", <<>>))
    ELSE ValidatePoints(curve, 0, field_path, res)

--------------------------------------------------------------------------
(* validate_config *)

\* FieldPath with the dot whatever the prefix
FieldPathAlwaysDotted(path_prefix, field_name) == path_prefix \o "." \o field_name

\* f"{path_prefix}.{field_name}" if path_prefix else field_name
FieldPath(path_prefix, field_name) ==
    IF path_prefix # "" THEN path_prefix \o "." \o field_name ELSE field_name

\* the constraint check of one present field, if the schema constrains it
CheckConstraints(data, schema, field_name, field_path, res) ==
    IF "constraints" \in DOMAIN schema /\ field_name \in DOMAIN schema.constraints
    THEN validate_constraints(GetItem(data, field_name),
                              schema.constraints[field_name], field_path, res)
    ELSE res

\* one pass of the loop over the required fields
CheckRequiredField(data, schema, fld, path_prefix, res) ==
    LET field_path == FieldPath(path_prefix, fld.name)
    IN  IF ~HasKey(data, fld.name)
        THEN add_error(res, field_path,
                 Message("Required field '{field_name}' is missing", <<fld.name>>))
        ELSE CheckConstraints(data, schema, fld.name, field_path,
                 validate_field_type(GetItem(data, fld.name), fld.type,
                                     field_path, res).result)

\* CheckRequiredFields that stops at the first missing field
RECURSIVE CheckRequiredFieldsFailFast(_, _, _, _, _)
CheckRequiredFieldsFailFast(data, schema, i, path_prefix, res) ==
    IF i > Len(schema.required_fields) THEN res
    ELSE IF ~HasKey(data, schema.required_fields[i].name)
    THEN CheckRequiredField(data, schema, schema.required_fields[i], path_prefix, res)
    ELSE CheckRequiredFieldsFailFast(data, schema, i + 1, path_prefix,
             CheckRequiredField(data, schema, schema.required_fields[i],
                                path_prefix, res))

RECURSIVE CheckRequiredFields(_, _, _, _, _)
CheckRequiredFields(data, schema, i, path_prefix, res) ==
    IF i > Len(schema.required_fields) THEN res
    ELSE CheckRequiredFields(data, schema, i + 1, path_prefix,
             CheckRequiredField(data, schema, schema.required_fields[i],
                                path_prefix, res))

\* CheckCurve that validates a curve-named field whatever its value
CheckCurveAnyValue(data, field_name, field_path, res) ==
    IF endswith(field_name, "_curve")
    THEN validate_curve(GetItem(data, field_name), field_path, res)
    ELSE res

\* the curve check of one present optional field
CheckCurve(data, field_name, field_path, res) ==
    IF endswith(field_name, "_curve") /\ IsInstance1(GetItem(data, field_name), "list")
    THEN validate_curve(GetItem(data, field_name), field_path, res)
    ELSE res

\* CheckOptionalField with a null value checked like any other
CheckOptionalFieldNullChecked(data, schema, fld, path_prefix, res) ==
    IF HasKey(data, fld.name)
    THEN LET field_path == FieldPath(path_prefix, fld.name)
         IN  CheckCurve(data, fld.name, field_path,
                 CheckConstraints(data, schema, fld.name, field_path,
                     validate_field_type(GetItem(data, fld.name), fld.type,
                                         field_path, res).result))
    ELSE res

\* one pass of the loop over the optional fields
CheckOptionalField(data, schema, fld, path_prefix, res) ==
    IF HasKey(data, fld.name) /\ GetItem(data, fld.name).t # "NoneType"
    THEN LET field_path == FieldPath(path_prefix, fld.name)
         IN  CheckCurve(data, fld.name, field_path,
                 CheckConstraints(data, schema, fld.name, field_path,
                     validate_field_type(GetItem(data, fld.name), fld.type,
                                         field_path, res).result))
    ELSE res

\* schema.get("optional_fields", {})
OptionalFields(schema) ==
    IF "optional_fields" \in DOMAIN schema THEN schema.optional_fields ELSE <<>>

RECURSIVE CheckOptionalFields(_, _, _, _, _)
CheckOptionalFields(data, schema, i, path_prefix, res) ==
    IF i > Len(OptionalFields(schema)) THEN res
    ELSE CheckOptionalFields(data, schema, i + 1, path_prefix,
             CheckOptionalField(data, schema, OptionalFields(schema)[i],
                                path_prefix, res))

\* KnownFields without the type field
KnownFieldsWithoutType(schema) ==
    {schema.required_fields[i].name : i \in DOMAIN schema.required_fields}
        \cup {OptionalFields(schema)[i].name : i \in DOMAIN OptionalFields(schema)}

\* the required and the optional field names, and "type"
KnownFields(schema) ==
    {schema.required_fields[i].name : i \in DOMAIN schema.required_fields}
        \cup {OptionalFields(schema)[i].name : i \in DOMAIN OptionalFields(schema)}
        \cup {"type"}

\* the loop over the document's fields, in document order
RECURSIVE CheckUnknownFields(_, _, _, _, _)
CheckUnknownFields(data, schema, i, path_prefix, res) ==
    IF i > Len(Keys(data)) THEN res
    ELSE LET field_name == Keys(data)[i]
         IN  CheckUnknownFields(data, schema, i + 1, path_prefix,
                 IF field_name \notin KnownFields(schema)
                 THEN add_warning(res, FieldPath(path_prefix, field_name),
                          Message("Unknown field '{field_name}'", <<field_name>>))
                 ELSE res)

\* validate_config with the optional fields checked before the required ones
validate_config_optional_first(data, config_type, res, path_prefix) ==
    IF config_type \notin DOMAIN SCHEMAS
    THEN add_error(res, IF path_prefix # "" THEN path_prefix ELSE "root",
             Message("Unknown config type: {config_type}", <<config_type>>))
    ELSE LET schema == SCHEMAS[config_type]
         IN  CheckUnknownFields(data, schema, 1, path_prefix,
                 CheckRequiredFields(data, schema, 1, path_prefix,
                     CheckOptionalFields(data, schema, 1, path_prefix, res)))

validate_config(data, config_type, res, path_prefix) ==
    IF config_type \notin DOMAIN SCHEMAS
    THEN add_error(res, IF path_prefix # "" THEN path_prefix ELSE "root",
             Message("Unknown config type: {config_type}", <<config_type>>))
    ELSE LET schema == SCHEMAS[config_type]
         IN  CheckUnknownFields(data, schema, 1, path_prefix,
                 CheckOptionalFields(data, schema, 1, path_prefix,
                     CheckRequiredFields(data, schema, 1, path_prefix, res)))

--------------------------------------------------------------------------
(* validate_file *)

\* what validate_file hands back for a file, given as its path and the
\* (data, error) that load_config_file returns for it
validate_file(f) ==
    LET fresh == ValidationResult(f.path, "None")
    IN  IF f.error.t # "NoneType" /\ f.error.s # ""
        THEN Return(add_error(fresh, "file", Message(f.error.s, <<>>)))
        ELSE IF ~IsInstance1(f.data, "dict")
        THEN Return(add_error(fresh, "root",
                 Message("Expected dictionary, got {type(data).__name__}",
                         <<TypeName(f.data)>>)))
        ELSE LET detected == detect_config_type(f.data)
             IN  IF detected.exc # "None" THEN Raise(detected.exc)
                 ELSE IF detected.ret = "None"
                 THEN Return(add_error(fresh, "root",
                          Message("Unable to detect config type. Add 'type' field or use recognizable field names.", <<>>)))
                 ELSE Return(validate_config(f.data, detected.ret,
                                 [fresh EXCEPT !.config_type = detected.ret], ""))

--------------------------------------------------------------------------
(* The documents validated *)

\* how many fields of a sample document are set or deleted
MaxEdits == 1

\* data[key] = value
SetItem(dict, key, value) ==
    IF HasKey(dict, key)
    THEN PyDict([i \in DOMAIN dict.entries |->
                    IF dict.entries[i].k = key
                    THEN [k |-> key, v |-> value] ELSE dict.entries[i]])
    ELSE PyDict(Append(dict.entries, [k |-> key, v |-> value]))

\* del data[key]
DelItem(dict, key) ==
    PyDict(SelectSeq(dict.entries, LAMBDA e : e.k # key))

Entry(key, value) == [k |-> key, v |-> value]

Spearman ==
    PyDict(<<Entry("id", PyStr("spearman")), Entry("base_health", PyInt(100)),
             Entry("base_move_speed", PyInt(5))>>)
Veterans ==
    PyDict(<<Entry("name", PyStr("Veterans")),
             Entry("hit_chance_multiplier", PyFloat(12, 10)),
             Entry("damage_multiplier", PyFloat(11, 10))>>)

\* one valid document of each kind, without the discriminator, and the empty one
SampleDocument(base) ==
    CASE base = "ERA_CONFIG" ->
            PyDict(<<Entry("name", PyStr("Ancient")),
                     Entry("archetypes", PyList(<<Spearman>>))>>)
      [] base = "UNIT_ARCHETYPE" ->
            PyDict(<<Entry("id", PyStr("spearman")), Entry("base_health", PyInt(100)),
                     Entry("base_move_speed", PyFloat(50, 10)),
                     Entry("weapon", PyStr("bronze_spear"))>>)
      [] base = "WEAPON_STATS" ->
            PyDict(<<Entry("name", PyStr("rifle")), Entry("shots_per_burst", PyInt(3)),
                     Entry("fire_rate", PyFloat(50, 10)),
                     Entry("base_hit_chance", PyFloat(7, 10)),
                     Entry("base_damage", PyInt(15)),
                     Entry("range_curve",
                           PyList(<<PyList(<<PyInt(0), PyFloat(10, 10)>>),
                                    PyList(<<PyInt(50), PyFloat(9, 10)>>)>>))>>)
      [] base = "UPGRADE_DEFINITION" -> Veterans
      [] base = "None" -> PyDict(<<>>)

Bases == {ConfigType[i] : i \in DOMAIN ConfigType} \cup {"None"}

SchemaFields(config_type) ==
    {SCHEMAS[config_type].required_fields[i].name :
        i \in DOMAIN SCHEMAS[config_type].required_fields}
    \cup {SCHEMAS[config_type].optional_fields[i].name :
        i \in DOMAIN SCHEMAS[config_type].optional_fields}

AllFields == UNION {SchemaFields(ConfigType[i]) : i \in DOMAIN ConfigType}

Constrained(field) ==
    \E c \in DOMAIN SCHEMAS : /\ "constraints" \in DOMAIN SCHEMAS[c]
                              /\ field \in DOMAIN SCHEMAS[c].constraints
RangeOf(field) ==
    LET c == CHOOSE c \in DOMAIN SCHEMAS : /\ "constraints" \in DOMAIN SCHEMAS[c]
                                           /\ field \in DOMAIN SCHEMAS[c].constraints
    IN  SCHEMAS[c].constraints[field]

\* values of every Python type
Generic ==
    {PyNone, PyStr("x"), PyInt(5), PyFloat(1, 2), PyBool(TRUE), PyBool(FALSE),
     PyList(<<>>), PyDict(<<>>)}

\* a bound of a range, the same number as a float, and its neighbours on the
\* side given by sign, a whole and a tenth away
Around(bound, sign) ==
    {bound,
     PyFloat(Numer(bound), Denom(bound)),
     IF bound.t = "int" THEN PyInt(bound.n + sign)
                        ELSE PyFloat(bound.n + sign * bound.d, bound.d),
     PyFloat(Numer(bound) * 10 + sign, Denom(bound) * 10)}

TypeValues ==
    {PyStr(v) : v \in {"EraConfig", "eraconfig", "ERACONFIG", "UnitArchetype",
                       "unitarchetype", "UNITARCHETYPE", "WeaponStats", "weaponstats",
                       "WeaponSTATS", "UpgradeDefinition", "upgradedefinition",
                       "UPGRADEDEFINITION", "Era", "unknown", ""}}

\* lists of nested entries, valid and not
EntryLists ==
    {PyList(<<Spearman>>),
     PyList(<<DelItem(Spearman, "base_health")>>),
     PyList(<<SetItem(Spearman, "base_health", PyInt(-1))>>),
     PyList(<<Spearman, SetItem(Spearman, "base_move_speed", PyStr("fast"))>>),
     PyList(<<Veterans>>),
     PyList(<<DelItem(Veterans, "name")>>),
     PyList(<<SetItem(Veterans, "damage_multiplier", PyInt(15))>>),
     PyList(<<PyStr("spearman")>>)}

\* curves, valid and not
Curves ==
    {PyList(<<PyList(<<PyInt(0), PyFloat(10, 10)>>), PyList(<<PyInt(1), PyStr("bad")>>)>>),
     PyList(<<PyList(<<PyInt(0), PyFloat(10, 10)>>),
              PyList(<<PyInt(1), PyFloat(8, 10), PyFloat(5, 10)>>)>>),
     PyList(<<PyList(<<PyStr("zero"), PyNone>>), PyInt(1)>>),
     PyList(<<PyList(<<PyBool(TRUE), PyInt(1)>>)>>),
     PyList(<<PyTuple(<<PyInt(0), PyFloat(10, 10)>>), PyTuple(<<PyInt(50), PyStr("bad")>>)>>)}

\* the values a field of the document's own kind is set to
Candidates(field) ==
    Generic
    \cup (IF Constrained(field)
          THEN Around(RangeOf(field).min, -1) \cup Around(RangeOf(field).max, 1)
          ELSE {})
    \cup (IF field \in {"archetypes", "upgrades"} THEN EntryLists ELSE {})
    \cup (IF endswith(field, "_curve") THEN Curves ELSE {})

\* the value a field of another kind is set to
Typical(field) ==
    IF Constrained(field) THEN RangeOf(field).min
    ELSE IF field \in {"archetypes", "upgrades"} THEN PyList(<<>>)
    ELSE IF endswith(field, "_curve") THEN PyList(<<>>)
    ELSE IF field = "weapon_stats" THEN PyDict(<<>>)
    ELSE PyStr("value")

OwnFields(base) == IF base = "None" THEN {} ELSE SchemaFields(base)

\* the documents one edit away from document d, a sample of kind base
EditOnce(base, d) ==
    {SetItem(d, "type", v) : v \in TypeValues \cup Generic}
    \cup UNION {{SetItem(d, f, v) : v \in Candidates(f)} : f \in OwnFields(base)}
    \cup {SetItem(d, f, Typical(f)) : f \in (AllFields \cup {"unknown_field"}) \ OwnFields(base)}
    \cup {DelItem(d, Keys(d)[i]) : i \in DOMAIN Keys(d)}

\* top levels that are no mapping
NonMappings == {PyList(<<PyStr("list"), PyStr("not"), PyStr("dict")>>),
                PyStr("text"), PyInt(5), PyNone}

\* load_config_file: the (data, error) it returns for a file
Loaded(d) == [path |-> "config.json", data |-> d, error |-> PyNone]
Unloadable(message) == [path |-> "config.json", data |-> PyNone, error |-> PyStr(message)]

--------------------------------------------------------------------------
(* The calls *)

NoCall == [fn |-> "None", config_type |-> "None"]

\* the file holds a sample document after at most n more edits
RECURSIVE InitDocument(_, _, _)
InitDocument(base, d, n) ==
    \/ file = Loaded(d)
    \/ /\ n > 0
       /\ \E e \in EditOnce(base, d) : InitDocument(base, e, n - 1)

InitFile ==
    \/ \E base \in Bases : InitDocument(base, SampleDocument(base), MaxEdits)
    \/ \E d \in NonMappings : file = Loaded(d)
    \/ file \in {Unloadable("JSON parsing error: {error}"),
                 Unloadable("File read error: {error}")}

Init ==
    /\ InitFile
    /\ pc = "ready"
    /\ call = NoCall
    /\ result = ValidationResult(file.path, "None")
    /\ ret = "None"
    /\ exc = "None"
    /\ input = "None"
    /\ output = "None"

IsMapping(f) == f.error.t = "NoneType" /\ IsInstance1(f.data, "dict")

\* detect_config_type(data)
DetectConfigType ==
    /\ pc = "ready"
    /\ IsMapping(file)
    /\ pc' = "done"
    /\ call' = [fn |-> "detect_config_type", config_type |-> "None"]
    /\ LET detected == detect_config_type(file.data)
       IN  ret' = detected.ret /\ exc' = detected.exc
    /\ UNCHANGED <<file, result, input, output>>

\* validate_config(data, config_type, result) on a fresh result
ValidateConfig(config_type) ==
    /\ pc = "ready"
    /\ IsMapping(file)
    /\ pc' = "done"
    /\ call' = [fn |-> "validate_config", config_type |-> config_type]
    /\ result' = validate_config(file.data, config_type,
                                 ValidationResult(file.path, config_type), "")
    /\ UNCHANGED <<file, ret, exc, input, output>>

\* validate_file(file_path)
ValidateFile ==
    /\ pc = "ready"
    /\ pc' = "done"
    /\ call' = [fn |-> "validate_file", config_type |-> "None"]
    /\ LET returned == validate_file(file)
       IN  /\ exc' = returned.exc
           /\ result' = IF returned.exc = "None" THEN returned.ret ELSE result
    /\ UNCHANGED <<file, ret, input, output>>

Next ==
    \/ DetectConfigType
    \/ \E i \in DOMAIN ConfigType : ValidateConfig(ConfigType[i])
    \/ ValidateFile

Spec == Init /\ [][Next]_vars

--------------------------------------------------------------------------
(* Properties *)

\* the call has returned or raised
Called(fn) == pc = "done" /\ call.fn = fn
ValidatedAs(config_type) ==
    Called("validate_config") /\ call.config_type = config_type

Kinds == {ConfigType[i] : i \in DOMAIN ConfigType}

\* how many errors, and warnings, of a result lie at a path
ErrorsAt(res, path) ==
    Cardinality({i \in DOMAIN res.errors : res.errors[i].path = path})
WarningsAt(res, path) ==
    Cardinality({i \in DOMAIN res.warnings : res.warnings[i].path = path})

\* the errors at a path built from one message template
ErrorsOf(res, path, fmt) ==
    Cardinality({i \in DOMAIN res.errors :
                    res.errors[i].path = path /\ res.errors[i].message.fmt = fmt})

RequiredNames(config_type) ==
    {SCHEMAS[config_type].required_fields[i].name :
        i \in DOMAIN SCHEMAS[config_type].required_fields}
OptionalNames(config_type) ==
    {SCHEMAS[config_type].optional_fields[i].name :
        i \in DOMAIN SCHEMAS[config_type].optional_fields}

\* the kind a nested schema names
KindNamed(name) == CHOOSE c \in Kinds : ConfigTypeValue(c) = name

\* parent[index].field, the index counted from 0
NestedPath(parent, index, field) ==
    parent \o "[" \o ToString(index) \o "]." \o field

\* entry i of the list under a nested field lacks a required field of the nested
\* kind, or holds a number below that field's minimum
NestedProblem(d, nested, i, field) ==
    LET entry == GetItem(d, nested.name).items[i]
        config_type == KindNamed(nested.type)
    IN  /\ entry.t = "dict"
        /\ field \in RequiredNames(config_type)
        /\ \/ ~HasKey(entry, field)
           \/ /\ field \in DOMAIN SCHEMAS[config_type].constraints
              /\ GetItem(entry, field).t \in {"int", "float"}
              /\ Less(GetItem(entry, field), SCHEMAS[config_type].constraints[field].min)

\* C1: after validate_config on an era document, every entry of a nested list
\* (archetypes, upgrades) that lacks a required field of its nested kind, or
\* holds a value below the field's minimum, has an error in the era's result at
\* the path parent[index].field.
C1_NestedEntriesValidated ==
    ValidatedAs("ERA_CONFIG") =>
        \A n \in DOMAIN SCHEMAS["ERA_CONFIG"].nested_schemas :
            LET nested == SCHEMAS["ERA_CONFIG"].nested_schemas[n]
            IN  (HasKey(file.data, nested.name) /\ GetItem(file.data, nested.name).t = "list") =>
                    \A i \in DOMAIN GetItem(file.data, nested.name).items :
                        \A field \in AllFields :
                            NestedProblem(file.data, nested, i, field) =>
                                ErrorsAt(result, NestedPath(nested.name, i - 1, field)) >= 1

\* C2: after validate_config, no required field of the schema has two or more
\* errors at its path.
C2_RequiredFieldAtMostOneError ==
    \A c \in Kinds :
        ValidatedAs(c) =>
            \A field \in RequiredNames(c) : ErrorsAt(result, field) <= 1

\* C3: detection and validation of a document that is a mapping return
\* normally: no exception escapes detect_config_type, validate_config or
\* validate_file.
C3_NoExceptionEscapes ==
    (pc = "done" /\ IsMapping(file)) => exc = "None"

\* a value of the expected type (a bool is an int)
Accepts(type, value) ==
    \E i \in DOMAIN type.names :
        \/ value.t = type.names[i]
        \/ type.names[i] = "int" /\ value.t = "bool"

Numeric(value) == value.t \in {"int", "float", "bool"}

\* a numeric value of a constrained field lies within the field's range
WithinRange(config_type, field, value) ==
    ("constraints" \in DOMAIN SCHEMAS[config_type]
        /\ field \in DOMAIN SCHEMAS[config_type].constraints
        /\ Numeric(value)) =>
            /\ ~Less(value, SCHEMAS[config_type].constraints[field].min)
            /\ ~Less(SCHEMAS[config_type].constraints[field].max, value)

\* a list whose elements are all two-element lists or tuples of numbers
WellFormedCurve(value) ==
    value.t = "list" =>
        \A i \in DOMAIN value.items :
            /\ value.items[i].t \in {"list", "tuple"}
            /\ Len(value.items[i].items) = 2
            /\ Numeric(value.items[i].items[1])
            /\ Numeric(value.items[i].items[2])

\* every required field is present with a correctly typed, in-range value
RequiredFieldsGood(d, config_type) ==
    \A i \in DOMAIN SCHEMAS[config_type].required_fields :
        LET fld == SCHEMAS[config_type].required_fields[i]
        IN  /\ HasKey(d, fld.name)
            /\ Accepts(fld.type, GetItem(d, fld.name))
            /\ WithinRange(config_type, fld.name, GetItem(d, fld.name))

\* every optional field that is present is null, or correctly typed, in range
\* and, when a curve, well formed
OptionalFieldsGood(d, config_type) ==
    \A i \in DOMAIN SCHEMAS[config_type].optional_fields :
        LET fld == SCHEMAS[config_type].optional_fields[i]
        IN  (HasKey(d, fld.name) /\ GetItem(d, fld.name).t # "NoneType") =>
                /\ Accepts(fld.type, GetItem(d, fld.name))
                /\ WithinRange(config_type, fld.name, GetItem(d, fld.name))
                /\ endswith(fld.name, "_curve") => WellFormedCurve(GetItem(d, fld.name))

\* the fields the schema declares: required, optional and the discriminator
Declared(config_type) ==
    RequiredNames(config_type) \cup OptionalNames(config_type) \cup {"type"}

NoUndeclaredField(d, config_type) ==
    \A i \in DOMAIN d.entries : d.entries[i].k \in Declared(config_type)

Clean(res) == Len(res.errors) = 0 /\ Len(res.warnings) = 0

\* the constrained fields of a kind that the document holds with a numeric value
NumericConstrained(d, config_type) ==
    IF "constraints" \in DOMAIN SCHEMAS[config_type]
    THEN {f \in DOMAIN SCHEMAS[config_type].constraints :
             HasKey(d, f) /\ Numeric(GetItem(d, f))}
    ELSE {}

\* C4 as stated: when every required field is present, correctly typed and in
\* range and no undeclared field occurs, validate_config yields no error and no
\* warning.
C4_RequiredGoodIsClean ==
    \A c \in Kinds :
        (ValidatedAs(c) /\ RequiredFieldsGood(file.data, c)
            /\ NoUndeclaredField(file.data, c)) => Clean(result)

\* C4 amended: when moreover every optional field that is present is null or
\* correctly typed, in range and (for a curve) a list of two-element numeric
\* lists, validate_config yields no error and no warning.
C4_AllGoodIsClean ==
    \A c \in Kinds :
        (ValidatedAs(c) /\ RequiredFieldsGood(file.data, c)
            /\ OptionalFieldsGood(file.data, c)
            /\ NoUndeclaredField(file.data, c)) => Clean(result) /\ is_valid(result)

\* a document good throughout that holds a non-null optional field and a
\* constrained field at its maximum was found clean
C4_Witness ==
    \E c \in Kinds :
        /\ ValidatedAs(c) /\ RequiredFieldsGood(file.data, c)
        /\ OptionalFieldsGood(file.data, c) /\ NoUndeclaredField(file.data, c)
        /\ \E f \in OptionalNames(c) :
              HasKey(file.data, f) /\ GetItem(file.data, f).t # "NoneType"
        /\ \E f \in NumericConstrained(file.data, c) :
              ~Less(GetItem(file.data, f), SCHEMAS[c].constraints[f].max)
        /\ Clean(result)

MissingFmt == "Required field '{field_name}' is missing"

MissingRequired(d, config_type) ==
    {f \in RequiredNames(config_type) : ~HasKey(d, f)}

\* C5: validate_config emits exactly one error for each required field absent
\* from the document, at the field's path and built from the "missing"
\* message; a document missing k required fields has at least k errors and,
\* when k > 0, is invalid.
C5_OneErrorPerMissingField ==
    \A c \in Kinds :
        ValidatedAs(c) =>
            /\ \A f \in MissingRequired(file.data, c) :
                  /\ ErrorsAt(result, f) = 1
                  /\ ErrorsOf(result, f, MissingFmt) = 1
                  /\ \A i \in DOMAIN result.errors :
                        result.errors[i].path = f => result.errors[i].message.args = <<f>>
            /\ \A f \in RequiredNames(c) \ MissingRequired(file.data, c) :
                  ErrorsOf(result, f, MissingFmt) = 0
            /\ Len(result.errors) >= Cardinality(MissingRequired(file.data, c))
            /\ MissingRequired(file.data, c) # {} => ~is_valid(result)

\* a document missing two or more required fields was validated
C5_Witness ==
    \E c \in Kinds :
        /\ ValidatedAs(c)
        /\ Cardinality(MissingRequired(file.data, c)) >= 2
        /\ Len(result.errors) >= 2

BelowFmt == "Value {value} is below minimum {constraints['min']}"
AboveFmt == "Value {value} exceeds maximum {constraints['max']}"

\* C6: for a numeric value of a field with a {min, max} constraint, a value
\* below min yields exactly one "below minimum" error, a value above max
\* exactly one "exceeds maximum" error, a value from min to max inclusive
\* neither, and no value both.
C6_InclusiveBounds ==
    \A c \in Kinds :
        ValidatedAs(c) =>
            \A f \in NumericConstrained(file.data, c) :
                LET value == GetItem(file.data, f)
                    range == SCHEMAS[c].constraints[f]
                IN  /\ ErrorsOf(result, f, BelowFmt) = IF Less(value, range.min) THEN 1 ELSE 0
                    /\ ErrorsOf(result, f, AboveFmt) = IF Less(range.max, value) THEN 1 ELSE 0
                    /\ ErrorsOf(result, f, BelowFmt) + ErrorsOf(result, f, AboveFmt) <= 1

\* a field holding exactly its minimum was validated without a constraint error
C6_Witness ==
    \E c \in Kinds :
        /\ ValidatedAs(c)
        /\ \E f \in NumericConstrained(file.data, c) :
              /\ ~Less(GetItem(file.data, f), SCHEMAS[c].constraints[f].min)
              /\ ~Less(SCHEMAS[c].constraints[f].min, GetItem(file.data, f))
              /\ ErrorsOf(result, f, BelowFmt) = 0
              /\ ErrorsOf(result, f, AboveFmt) = 0

\* C7: each document field the schema does not declare (not required, not
\* optional, not "type") produces exactly one warning and no error; "type"
\* produces neither; the result is valid iff its error list is empty.
C7_UndeclaredFieldsWarnOnly ==
    \A c \in Kinds :
        ValidatedAs(c) =>
            /\ \A i \in DOMAIN file.data.entries :
                  LET f == file.data.entries[i].k
                  IN  IF f \in Declared(c)
                      THEN WarningsAt(result, f) = 0
                      ELSE WarningsAt(result, f) = 1 /\ ErrorsAt(result, f) = 0
            /\ ErrorsAt(result, "type") = 0 /\ WarningsAt(result, "type") = 0
            /\ Len(result.warnings) =
                  Cardinality({i \in DOMAIN file.data.entries :
                                  file.data.entries[i].k \notin Declared(c)})
            /\ is_valid(result) <=> result.errors = <<>>

\* a document with the discriminator and an undeclared field was found valid
\* with warnings only
C7_Witness ==
    \E c \in Kinds :
        /\ ValidatedAs(c)
        /\ HasKey(file.data, "type")
        /\ ~NoUndeclaredField(file.data, c)
        /\ Len(result.warnings) >= 1
        /\ is_valid(result)

\* two texts equal up to the case of their ASCII letters
RECURSIVE SameIgnoringCase(_, _)
SameIgnoringCase(a, b) ==
    IF Len(a) # Len(b) THEN FALSE
    ELSE IF Len(a) = 0 THEN TRUE
    ELSE /\ \/ SubSeq(a, 1, 1) = SubSeq(b, 1, 1)
            \/ \E i \in DOMAIN UpperCase :
                  {SubSeq(a, 1, 1), SubSeq(b, 1, 1)} = {UpperCase[i], LowerCase[i]}
         /\ SameIgnoringCase(SubSeq(a, 2, Len(a)), SubSeq(b, 2, Len(b)))

\* the document's "type" is a string naming the kind, whatever the case
Names(d, config_type) ==
    /\ HasKey(d, "type")
    /\ GetItem(d, "type").t = "str"
    /\ SameIgnoringCase(GetItem(d, "type").s, ConfigTypeValue(config_type))

\* C8: when the document's "type" equals a kind's canonical name ignoring
\* letter case, detect_config_type returns that kind, whatever other fields the
\* document has.
C8_DiscriminatorFirst ==
    Called("detect_config_type") =>
        \A c \in Kinds : Names(file.data, c) => (ret = c /\ exc = "None")

\* a document typed "upgradedefinition" (not in canonical case) that holds
\* `archetypes` was detected as an upgrade
C8_Witness ==
    /\ Called("detect_config_type")
    /\ Names(file.data, "UPGRADE_DEFINITION")
    /\ GetItem(file.data, "type").s # ConfigTypeValue("UPGRADE_DEFINITION")
    /\ HasKey(file.data, "archetypes")
    /\ ret = "UPGRADE_DEFINITION"

\* the kind the structural heuristics give, in the priority
\* era > weapon > upgrade > archetype
ByPriority(d) ==
    CASE HasKey(d, "archetypes") -> "ERA_CONFIG"
      [] ~HasKey(d, "archetypes")
            /\ (HasKey(d, "shots_per_burst") \/ HasKey(d, "fire_rate")) -> "WEAPON_STATS"
      [] ~HasKey(d, "archetypes")
            /\ ~(HasKey(d, "shots_per_burst") \/ HasKey(d, "fire_rate"))
            /\ (HasKey(d, "hit_chance_multiplier") \/ HasKey(d, "damage_multiplier"))
            -> "UPGRADE_DEFINITION"
      [] ~HasKey(d, "archetypes")
            /\ ~(HasKey(d, "shots_per_burst") \/ HasKey(d, "fire_rate"))
            /\ ~(HasKey(d, "hit_chance_multiplier") \/ HasKey(d, "damage_multiplier"))
            /\ (HasKey(d, "base_health") \/ HasKey(d, "base_move_speed"))
            -> "UNIT_ARCHETYPE"
      [] OTHER -> "None"

\* C9: for a document without "type", detect_config_type returns the kind of
\* the first heuristic that matches, in the order era, weapon, upgrade,
\* archetype, and none when no heuristic matches.
C9_HeuristicPriority ==
    (Called("detect_config_type") /\ ~HasKey(file.data, "type")) =>
        (ret = ByPriority(file.data) /\ exc = "None")

\* a document without "type" that matches the era and the weapon heuristics
\* was detected as an era
C9_Witness ==
    /\ Called("detect_config_type")
    /\ ~HasKey(file.data, "type")
    /\ HasKey(file.data, "archetypes")
    /\ HasKey(file.data, "shots_per_burst")
    /\ ret = "ERA_CONFIG"

\* no kind can be detected for the mapping: its "type", if any, names no kind
\* and no heuristic field is present
Undetectable(d) ==
    /\ \A c \in Kinds : ~Names(d, c)
    /\ ByPriority(d) = "None"

\* C10: validate_file on a document that is no mapping, or whose kind cannot
\* be detected, returns an invalid result with exactly one error, at "root",
\* no warning and no detected kind.
C10_SingleRootError ==
    (Called("validate_file") /\ file.error.t = "NoneType"
        /\ (file.data.t # "dict" \/ Undetectable(file.data))) =>
            /\ exc = "None"
            /\ Len(result.errors) = 1
            /\ result.errors[1].path = "root"
            /\ Len(result.warnings) = 0
            /\ result.config_type = "None"
            /\ ~is_valid(result)

startswith(text, prefix) ==
    Len(text) >= Len(prefix) /\ SubSeq(text, 1, Len(prefix)) = prefix

\* how many errors of a result lie at a field's path or at an indexed path
\* below it
ErrorsUnder(res, field) ==
    Cardinality({i \in DOMAIN res.errors :
                    \/ res.errors[i].path = field
                    \/ startswith(res.errors[i].path, field \o "[")})

TypeFmts == {"Expected {type_names}, got {type(value).__name__}",
             "Expected {expected_type.__name__}, got {type(value).__name__}"}

\* the type errors at a path
TypeErrorsAt(res, path) ==
    Cardinality({i \in DOMAIN res.errors :
                    res.errors[i].path = path /\ res.errors[i].message.fmt \in TypeFmts})

IsNull(d, f) == HasKey(d, f) /\ GetItem(d, f).t = "NoneType"

\* C14: after validate_config, an optional field that is absent or present
\* with a null value has no error at or below its path and no warning; an
\* optional field present and non-null has one type error iff its value is
\* not of the declared type, and one constraint error iff it is numeric and
\* out of the field's range, like a required field.
C14_NullOptionalUnchecked ==
    \A c \in Kinds :
        ValidatedAs(c) =>
            \A i \in DOMAIN SCHEMAS[c].optional_fields :
                LET fld == SCHEMAS[c].optional_fields[i]
                    value == GetItem(file.data, fld.name)
                IN  IF ~HasKey(file.data, fld.name) \/ IsNull(file.data, fld.name)
                    THEN /\ ErrorsUnder(result, fld.name) = 0
                         /\ WarningsAt(result, fld.name) = 0
                    ELSE /\ TypeErrorsAt(result, fld.name) =
                               IF Accepts(fld.type, value) THEN 0 ELSE 1
                         /\ ErrorsOf(result, fld.name, BelowFmt)
                               + ErrorsOf(result, fld.name, AboveFmt) =
                               IF WithinRange(c, fld.name, value) THEN 0 ELSE 1
                         /\ WarningsAt(result, fld.name) = 0

\* a document holding a null optional field whose schema constrains or types
\* it was validated, and nothing was reported for the field
C14_Witness ==
    \E c \in Kinds :
        /\ ValidatedAs(c)
        /\ \E f \in OptionalNames(c) :
              /\ IsNull(file.data, f)
              /\ ErrorsUnder(result, f) = 0
              /\ WarningsAt(result, f) = 0
        /\ \E f \in OptionalNames(c) :
              /\ HasKey(file.data, f) /\ ~IsNull(file.data, f)

\* element i of a list is a two-element sequence: a list or a tuple
IsPair(value, i) ==
    value.items[i].t \in {"list", "tuple"} /\ Len(value.items[i].items) = 2

\* how many errors curve validation owes a list: one for each element that is
\* no pair, one for each non-numeric component of a pair
CurveProblems(value) ==
    Cardinality({i \in DOMAIN value.items : ~IsPair(value, i)})
    + Cardinality({i \in DOMAIN value.items :
                      IsPair(value, i) /\ ~Numeric(value.items[i].items[1])})
    + Cardinality({i \in DOMAIN value.items :
                      IsPair(value, i) /\ ~Numeric(value.items[i].items[2])})

CurveFmt == "Curve must be a list of [x, y] pairs"

\* the errors of curve validation for a field: those at an indexed path below
\* it, and the "must be a list" error at its own path
CurveErrors(res, field) ==
    ErrorsUnder(res, field) - ErrorsAt(res, field) + ErrorsOf(res, field, CurveFmt)

\* the optional field of a kind is subject to curve validation in document d
CurveChecked(d, config_type, field) ==
    /\ field \in OptionalNames(config_type)
    /\ HasKey(d, field) /\ ~IsNull(d, field)
    /\ endswith(field, "_curve")
    /\ GetItem(d, field).t = "list"

BadSecondY ==
    PyList(<<PyList(<<PyInt(0), PyFloat(10, 10)>>), PyList(<<PyInt(1), PyStr("bad")>>)>>)

\* C20: after validate_config, a field has curve errors only if it is an
\* optional field that is present, non-null, named *_curve and a list, and such
\* a field has exactly the errors its elements owe; a curve-named optional
\* field holding a non-null value that is no list has its type error and
\* nothing else; a weapon document valid but for range_curve
\* [[0, 1.0], [1, "bad"]] is invalid with one error, at range_curve[1][1].
C20_CurveValidationScope ==
    \A c \in Kinds :
        ValidatedAs(c) =>
            /\ \A f \in AllFields \cup {"type", "unknown_field"} :
                  IF CurveChecked(file.data, c, f)
                  THEN CurveErrors(result, f) = CurveProblems(GetItem(file.data, f))
                  ELSE CurveErrors(result, f) = 0
            /\ \A f \in OptionalNames(c) :
                  (endswith(f, "_curve") /\ HasKey(file.data, f) /\ ~IsNull(file.data, f)
                      /\ GetItem(file.data, f).t # "list") =>
                          ErrorsUnder(result, f) = 1 /\ TypeErrorsAt(result, f) = 1
            /\ (c = "WEAPON_STATS" /\ RequiredFieldsGood(file.data, c)
                    /\ NoUndeclaredField(file.data, c)
                    /\ HasKey(file.data, "range_curve")
                    /\ GetItem(file.data, "range_curve") = BadSecondY
                    /\ OptionalFieldsGood(DelItem(file.data, "range_curve"), c)) =>
                        /\ ~is_valid(result)
                        /\ Len(result.errors) = 1
                        /\ result.errors[1].path = "range_curve[1][1]"

\* the weapon document with range_curve [[0, 1.0], [1, "bad"]] was validated
\* and found invalid
C20_Witness ==
    /\ ValidatedAs("WEAPON_STATS")
    /\ RequiredFieldsGood(file.data, "WEAPON_STATS")
    /\ HasKey(file.data, "range_curve")
    /\ GetItem(file.data, "range_curve") = BadSecondY
    /\ ErrorsAt(result, "range_curve[1][1]") = 1
    /\ ~is_valid(result)

--------------------------------------------------------------------------
(* validate_curve called on its own *)

MaxPoints == 2

\* curve elements: pairs of numbers, pairs with a component that is no number,
\* lists of another length, values that are no list, and the tuples
\* yaml.safe_load gives for the entries of !!pairs and !!omap
Points ==
    {PyList(<<PyInt(0), PyFloat(10, 10)>>),
     PyList(<<PyInt(1), PyStr("bad")>>),
     PyList(<<PyStr("zero"), PyNone>>),
     PyList(<<PyBool(TRUE), PyInt(1)>>),
     PyList(<<PyNone, PyFloat(5, 10)>>),
     PyList(<<PyInt(1), PyFloat(8, 10), PyFloat(5, 10)>>),
     PyList(<<PyInt(1)>>),
     PyList(<<>>),
     PyTuple(<<PyInt(0), PyFloat(10, 10)>>),
     PyTuple(<<PyInt(0), PyStr("bad")>>),
     PyTuple(<<PyInt(1), PyInt(2), PyInt(3)>>),
     PyInt(1),
     PyStr("ab"),
     PyNone,
     PyDict(<<Entry("x", PyInt(0)), Entry("y", PyInt(1))>>)}

NoFile == Unloadable("")

CurveInit ==
    /\ \/ \E n \in 0..MaxPoints : \E items \in [1..n -> Points] : input = PyList(items)
       \/ input \in NonMappings \ {PyList(<<PyStr("list"), PyStr("not"), PyStr("dict")>>)}
    /\ output = ValidationResult("curve", "None")
    /\ pc = "ready"
    /\ call = NoCall
    /\ exc = "None"
    /\ file = NoFile
    /\ result = ValidationResult(NoFile.path, "None")
    /\ ret = "None"

\* validate_curve(curve, "range_curve", result) on a fresh result
ValidateCurve ==
    /\ pc = "ready"
    /\ pc' = "done"
    /\ call' = [fn |-> "validate_curve", config_type |-> "None"]
    /\ output' = validate_curve(input, "range_curve", output)
    /\ UNCHANGED <<file, result, ret, exc, input>>

CurveNext == ValidateCurve

CurveSpec == CurveInit /\ [][CurveNext]_vars

\* the path of element i (counted from 1 in the model, from 0 in the path)
PointPath(i) == "range_curve[" \o ToString(i - 1) \o "]"

\* C12: after validate_curve on a list, each element that is no two-element
\* list has exactly one error at field[i] and none at field[i][0] or
\* field[i][1]; each two-element list has none at field[i], one at field[i][0]
\* iff its first component is no number and one at field[i][1] iff its second
\* is no number, whatever the elements before it; there is no other error, so a
\* curve of numeric pairs has none.
C12_CurveErrorsPerIndex ==
    (Called("validate_curve") /\ input.t = "list") =>
        /\ \A i \in DOMAIN input.items :
              IF ~IsPair(input, i)
              THEN /\ ErrorsAt(output, PointPath(i)) = 1
                   /\ ErrorsAt(output, PointPath(i) \o "[0]") = 0
                   /\ ErrorsAt(output, PointPath(i) \o "[1]") = 0
              ELSE /\ ErrorsAt(output, PointPath(i)) = 0
                   /\ ErrorsAt(output, PointPath(i) \o "[0]") =
                         IF Numeric(input.items[i].items[1]) THEN 0 ELSE 1
                   /\ ErrorsAt(output, PointPath(i) \o "[1]") =
                         IF Numeric(input.items[i].items[2]) THEN 0 ELSE 1
        /\ Len(output.errors) = CurveProblems(input)
        /\ Len(output.warnings) = 0
        /\ WellFormedCurve(input) => is_valid(output)

\* a curve whose first element is no pair and whose second element is a pair
\* with a non-numeric component was validated, and both were reported
C12_Witness ==
    /\ Called("validate_curve")
    /\ input.t = "list" /\ Len(input.items) >= 2
    /\ ~IsPair(input, 1)
    /\ IsPair(input, 2) /\ ~Numeric(input.items[2].items[2])
    /\ ErrorsAt(output, PointPath(1)) = 1
    /\ ErrorsAt(output, PointPath(2) \o "[1]") = 1

--------------------------------------------------------------------------
(* pathlib *)

\* text.rfind("."), counted from 1; 0 when there is none
RECURSIVE RFindDot(_, _)
RFindDot(text, i) ==
    IF i = 0 THEN 0
    ELSE IF SubSeq(text, i, i) = "." THEN i
    ELSE RFindDot(text, i - 1)

\* Path.name
Name(parts) == IF Len(parts) = 0 THEN "" ELSE parts[Len(parts)]

\* Path.suffix: the name from its last dot on, unless that dot starts or ends
\* the name
Suffix(parts) ==
    LET name == Name(parts)
        i == RFindDot(name, Len(name))
    IN  IF 1 < i /\ i < Len(name) THEN SubSeq(name, i, Len(name)) ELSE ""

\* str(path)
PathStr(parts) ==
    IF Len(parts) = 0 THEN "."
    ELSE IF parts[1] = "/" THEN "/" \o Join("/", Tail(parts))
    ELSE Join("/", parts)

\* name in path.parts
InParts(name, parts) == \E i \in DOMAIN parts : parts[i] = name

--------------------------------------------------------------------------
(* load_config_file and validate_directory *)

\* The content of a file is given by what reading and parsing it come to:
\*   read   "ok", or the exception read_text raises
\*   text   Parsed(data) when the parser of the file's format accepts the
\*          text and yields data, Malformed when it rejects it with the
\*          format's own error (yaml.YAMLError, json.JSONDecodeError),
\*          ParserRaises(exception) when yaml.safe_load or json.loads ends
\*          in another exception (ValueError for a date or an integer that
\*          cannot be built, RecursionError for nesting too deep)
Parsed(data) == [ok |-> TRUE, data |-> data, raises |-> "None"]
Malformed == [ok |-> FALSE, data |-> PyNone, raises |-> "ParseError"]
ParserRaises(exception) == [ok |-> FALSE, data |-> PyNone, raises |-> exception]
Content(read, text) == [read |-> read, text |-> text]

\* the exceptions that are an OSError: the class and its subclasses
OSErrors ==
    {"OSError", "BlockingIOError", "ChildProcessError", "ConnectionError",
     "BrokenPipeError", "ConnectionAbortedError", "ConnectionRefusedError",
     "ConnectionResetError", "FileExistsError", "FileNotFoundError",
     "InterruptedError", "IsADirectoryError", "NotADirectoryError",
     "PermissionError", "ProcessLookupError", "TimeoutError"}

\* the except clauses of load_config_file; naming yaml.YAMLError raises
\* NameError when the import of yaml failed
HandleLoadError(exception, yaml_available) ==
    IF ~yaml_available THEN Raise("NameError")
    ELSE IF exception = "YAMLError"
         THEN Return([data |-> PyNone, error |-> PyStr("YAML parsing error: {error}")])
    ELSE IF exception = "JSONDecodeError"
         THEN Return([data |-> PyNone, error |-> PyStr("JSON parsing error: {error}")])
    ELSE IF exception \in OSErrors
         THEN Return([data |-> PyNone, error |-> PyStr("File read error: {error}")])
    ELSE Raise(exception)

\* returns (data, error), or raises
load_config_file(file_path, content, yaml_available) ==
    IF content.read # "ok" THEN HandleLoadError(content.read, yaml_available)
    ELSE LET suffix == lower(Suffix(file_path))
         IN  IF suffix \in {".yaml", ".yml"}
             THEN IF ~yaml_available
                  THEN Return([data |-> PyNone,
                               error |-> PyStr("PyYAML is not installed. Run: pip install pyyaml")])
                  ELSE IF content.text.ok
                       THEN Return([data |-> content.text.data, error |-> PyNone])
                  ELSE IF content.text.raises = "ParseError"
                       THEN HandleLoadError("YAMLError", yaml_available)
                       ELSE HandleLoadError(content.text.raises, yaml_available)
             ELSE IF suffix = ".json"
             THEN IF content.text.ok
                  THEN Return([data |-> content.text.data, error |-> PyNone])
                  ELSE IF content.text.raises = "ParseError"
                  THEN HandleLoadError("JSONDecodeError", yaml_available)
                  ELSE HandleLoadError(content.text.raises, yaml_available)
             ELSE Return([data |-> PyNone,
                          error |-> PyStr("Unsupported file extension: {suffix}")])

\* validate_file from the path on: the file is loaded, then validated
LoadAndValidate(file_path, content, yaml_available) ==
    LET loaded == load_config_file(file_path, content, yaml_available)
    IN  IF loaded.exc # "None" THEN Raise(loaded.exc)
        ELSE validate_file([path |-> PathStr(file_path), data |-> loaded.ret.data,
                            error |-> loaded.ret.error])

\* the loop over directory.rglob("*" + ext) from entry i of the listing on,
\* appending to results; an exception of validate_file ends the loop
RECURSIVE ValidateMatching(_, _, _, _, _, _)
ValidateMatching(directory, listing, ext, i, yaml_available, results) ==
    IF i > Len(listing) THEN Return(results)
    ELSE LET file_path == directory \o listing[i].parts
         IN  IF ~endswith(Name(file_path), ext)
                  \/ InParts("test", file_path) \/ InParts("tests", file_path)
             THEN ValidateMatching(directory, listing, ext, i + 1, yaml_available, results)
             ELSE LET validated == LoadAndValidate(file_path, listing[i].content,
                                                   yaml_available)
                  IN  IF validated.exc # "None" THEN Raise(validated.exc)
                      ELSE ValidateMatching(directory, listing, ext, i + 1, yaml_available,
                                            Append(results, validated.ret))

extensions == <<".yaml", ".yml", ".json">>

\* the loop over the extensions from extension e on
RECURSIVE ValidateExtensions(_, _, _, _, _)
ValidateExtensions(directory, listing, e, yaml_available, results) ==
    IF e > Len(extensions) THEN Return(results)
    ELSE LET matched == ValidateMatching(directory, listing, extensions[e], 1,
                                         yaml_available, results)
         IN  IF matched.exc # "None" THEN Raise(matched.exc)
             ELSE ValidateExtensions(directory, listing, e + 1, yaml_available, matched.ret)

\* directory is the parts of the directory's path, listing the files below it
\* in the order rglob yields them
validate_directory(directory, listing, yaml_available) ==
    ValidateExtensions(directory, listing, 1, yaml_available, <<>>)

MaxFiles == 2

WeaponDocument == SampleDocument("WEAPON_STATS")

\* files of a config directory: their path below the directory and content
ConfigFiles ==
    {[parts |-> <<"rifle.json">>, content |-> Content("ok", Parsed(WeaponDocument))],
     [parts |-> <<"eras", "ancient.yaml">>,
      content |-> Content("ok", Parsed(SampleDocument("ERA_CONFIG")))],
     [parts |-> <<"veterans.yml">>, content |-> Content("ok", Parsed(Veterans))],
     [parts |-> <<"broken.json">>, content |-> Content("ok", Malformed)],
     [parts |-> <<"broken.yaml">>, content |-> Content("ok", Malformed)],
     [parts |-> <<"list.json">>,
      content |-> Content("ok", Parsed(PyList(<<PyStr("list"), PyStr("not"), PyStr("dict")>>)))],
     [parts |-> <<"empty.yaml">>, content |-> Content("ok", Parsed(PyNone))],
     [parts |-> <<"unknown.json">>,
      content |-> Content("ok", Parsed(PyDict(<<Entry("some_field", PyStr("value"))>>)))],
     [parts |-> <<"typed.json">>,
      content |-> Content("ok", Parsed(SetItem(WeaponDocument, "type", PyInt(5))))],
     [parts |-> <<"noted.json">>,
      content |-> Content("ok", Parsed(SetItem(WeaponDocument, "notes", PyStr("draft"))))],
     [parts |-> <<"baddate.yaml">>, content |-> Content("ok", ParserRaises("ValueError"))],
     [parts |-> <<"deep.json">>, content |-> Content("ok", ParserRaises("RecursionError"))],
     [parts |-> <<"latin1.json">>, content |-> Content("UnicodeDecodeError", Malformed)],
     [parts |-> <<"locked.json">>, content |-> Content("PermissionError", Malformed)],
     [parts |-> <<"tests", "fixture.json">>, content |-> Content("ok", Malformed)],
     [parts |-> <<"eras", "test", "draft.yml">>, content |-> Content("ok", Parsed(Veterans))],
     [parts |-> <<"test_rifle.json">>, content |-> Content("ok", Parsed(WeaponDocument))],
     [parts |-> <<"notes.txt">>, content |-> Content("ok", Malformed)]}

Directories == {<<"configs">>, <<"tests", "fixtures">>}

\* a listing of up to n more files, none listed twice
RECURSIVE InitListing(_, _, _, _)
InitListing(directory, yaml_available, listing, n) ==
    \/ input = [directory |-> directory, listing |-> listing,
                yaml_available |-> yaml_available]
    \/ /\ n > 0
       /\ \E f \in ConfigFiles :
             /\ \A i \in DOMAIN listing : listing[i] # f
             /\ InitListing(directory, yaml_available, Append(listing, f), n - 1)

DirectoryInit ==
    /\ \E directory \in Directories : \E yaml_available \in BOOLEAN :
          InitListing(directory, yaml_available, <<>>, MaxFiles)
    /\ output = <<>>
    /\ pc = "ready"
    /\ call = NoCall
    /\ exc = "None"
    /\ file = NoFile
    /\ result = ValidationResult(NoFile.path, "None")
    /\ ret = "None"

\* validate_directory(directory)
ValidateDirectory ==
    /\ pc = "ready"
    /\ pc' = "done"
    /\ call' = [fn |-> "validate_directory", config_type |-> "None"]
    /\ LET returned == validate_directory(input.directory, input.listing,
                                          input.yaml_available)
       IN  /\ exc' = returned.exc
           /\ output' = IF returned.exc = "None" THEN returned.ret ELSE output
    /\ UNCHANGED <<file, result, ret, input>>

DirectoryNext == ValidateDirectory

DirectorySpec == DirectoryInit /\ [][DirectoryNext]_vars

\* the files of the listing that validate_directory is to report: those named
\* *.yaml, *.yml or *.json with no path component test or tests
Reportable ==
    {i \in DOMAIN input.listing :
        LET file_path == input.directory \o input.listing[i].parts
        IN  /\ \E e \in DOMAIN extensions : endswith(Name(file_path), extensions[e])
            /\ ~InParts("test", file_path) /\ ~InParts("tests", file_path)}

\* the file cannot be parsed, or its top level is no mapping, or its kind is
\* not detectable
Defective(f) ==
    \/ f.content.read # "ok"
    \/ ~f.content.text.ok
    \/ f.content.text.data.t # "dict"
    \/ Undetectable(f.content.text.data)

ResultsFor(file_path) ==
    {r \in DOMAIN output : output[r].file_path = PathStr(file_path)}

\* C11: validate_directory returns, and its list holds exactly one result for
\* each file named *.yaml, *.yml or *.json without a path component test or
\* tests, and no other; the result of a file that is unparsable, no mapping
\* or of no detectable kind is invalid.
C11_OneResultPerFile ==
    Called("validate_directory") =>
        /\ exc = "None"
        /\ Len(output) = Cardinality(Reportable)
        /\ \A i \in Reportable :
              LET f == input.listing[i]
              IN  /\ Cardinality(ResultsFor(input.directory \o f.parts)) = 1
                  /\ Defective(f) =>
                        \A r \in ResultsFor(input.directory \o f.parts) :
                            ~is_valid(output[r])

--------------------------------------------------------------------------
(* project_stats: strings, categories, count_lines, detect_era_from_path *)

UpperChar(c) ==
    IF \E i \in DOMAIN LowerCase : LowerCase[i] = c
    THEN UpperCase[CHOOSE i \in DOMAIN LowerCase : LowerCase[i] = c]
    ELSE c

\* text.capitalize(): the first character in upper case, the rest in lower
capitalize(text) ==
    IF Len(text) = 0 THEN ""
    ELSE UpperChar(SubSeq(text, 1, 1)) \o lower(SubSeq(text, 2, Len(text)))

\* sub in text
Contains(text, sub) ==
    \E i \in 1..(Len(text) - Len(sub) + 1) : SubSeq(text, i, i + Len(sub) - 1) = sub

\* the characters str.strip() removes, up to U+00FF: blank, tab, line feed,
\* carriage return, form feed, then U+000B, U+001C, U+001D, U+001E, U+001F,
\* U+0085 and U+00A0 written as the characters themselves. (Python also
\* strips U+1680, U+2000 to U+200A, U+2028, U+2029, U+202F, U+205F and
\* U+3000, which a string of this module cannot hold; no line modelled
\* here holds one.)
Whitespace ==
    {" ", "\t", "\n", "\r", "\f", "", "", "", "", "", "", " "}

\* text.strip()
RECURSIVE strip(_)
strip(text) ==
    IF Len(text) = 0 THEN ""
    ELSE IF SubSeq(text, 1, 1) \in Whitespace THEN strip(SubSeq(text, 2, Len(text)))
    ELSE IF SubSeq(text, Len(text), Len(text)) \in Whitespace
         THEN strip(SubSeq(text, 1, Len(text) - 1))
    ELSE text

Category(name, exts) == [name |-> name, extensions |-> exts]

EXTENSION_CATEGORIES ==
    <<Category("code", {".cs", ".py", ".sh"}),
      Category("config", {".yaml", ".yml", ".json", ".xml", ".asset"}),
      Category("scene", {".unity"}),
      Category("prefab", {".prefab"}),
      Category("material", {".mat"}),
      Category("shader", {".shader", ".shadergraph", ".hlsl"}),
      Category("texture", {".png", ".jpg", ".jpeg", ".tga", ".psd", ".exr"}),
      Category("model", {".fbx", ".obj", ".blend", ".dae"}),
      Category("audio", {".wav", ".mp3", ".ogg", ".aiff"}),
      Category("animation", {".anim", ".controller"}),
      Category("docs", {".md", ".txt", ".rst"})>>

\* the loop of get_category from category i on
RECURSIVE MatchCategory(_, _)
MatchCategory(suffix, i) ==
    IF i > Len(EXTENSION_CATEGORIES) THEN "other"
    ELSE IF suffix \in EXTENSION_CATEGORIES[i].extensions
         THEN EXTENSION_CATEGORIES[i].name
         ELSE MatchCategory(suffix, i + 1)

get_category(file_path) == MatchCategory(lower(Suffix(file_path)), 1)

\* the counters of count_lines' loop
Counters(code, comment, in_multiline_comment) ==
    [code |-> code, comment |-> comment, in_multiline_comment |-> in_multiline_comment]

\* CountLine with a block comment that no line closes
CountLineNeverClosed(suffix, stripped, c) ==
    IF suffix = ".cs"
    THEN IF c.in_multiline_comment
         THEN Counters(c.code, c.comment + 1, TRUE)
         ELSE IF startswith(stripped, "/*")
         THEN Counters(c.code, c.comment + 1, ~Contains(stripped, "*/"))
         ELSE IF startswith(stripped, "//")
         THEN Counters(c.code, c.comment + 1, c.in_multiline_comment)
         ELSE Counters(c.code + 1, c.comment, c.in_multiline_comment)
    ELSE IF suffix \in {".py", ".sh"}
    THEN IF startswith(stripped, "#")
              \/ startswith(stripped, "\"\"\"") \/ startswith(stripped, "'''")
         THEN Counters(c.code, c.comment + 1, c.in_multiline_comment)
         ELSE Counters(c.code + 1, c.comment, c.in_multiline_comment)
    ELSE IF suffix \in {".yaml", ".yml"}
    THEN IF startswith(stripped, "#")
         THEN Counters(c.code, c.comment + 1, c.in_multiline_comment)
         ELSE Counters(c.code + 1, c.comment, c.in_multiline_comment)
    ELSE Counters(c.code + 1, c.comment, c.in_multiline_comment)

\* CountLine with a docstring line counted as a comment and as code
CountLineDocstringTwice(suffix, stripped, c) ==
    IF suffix = ".cs"
    THEN IF c.in_multiline_comment
         THEN Counters(c.code, c.comment + 1, ~Contains(stripped, "*/"))
         ELSE IF startswith(stripped, "/*")
         THEN Counters(c.code, c.comment + 1, ~Contains(stripped, "*/"))
         ELSE IF startswith(stripped, "//")
         THEN Counters(c.code, c.comment + 1, c.in_multiline_comment)
         ELSE Counters(c.code + 1, c.comment, c.in_multiline_comment)
    ELSE IF suffix \in {".py", ".sh"}
    THEN IF startswith(stripped, "#")
         THEN Counters(c.code, c.comment + 1, c.in_multiline_comment)
         ELSE IF startswith(stripped, "\"\"\"") \/ startswith(stripped, "'''")
         THEN Counters(c.code + 1, c.comment + 1, c.in_multiline_comment)
         ELSE Counters(c.code + 1, c.comment, c.in_multiline_comment)
    ELSE IF suffix \in {".yaml", ".yml"}
    THEN IF startswith(stripped, "#")
         THEN Counters(c.code, c.comment + 1, c.in_multiline_comment)
         ELSE Counters(c.code + 1, c.comment, c.in_multiline_comment)
    ELSE Counters(c.code + 1, c.comment, c.in_multiline_comment)

\* one pass of count_lines' loop over a line that is not blank
CountLine(suffix, stripped, c) ==
    IF suffix = ".cs"
    THEN IF c.in_multiline_comment
         THEN Counters(c.code, c.comment + 1, ~Contains(stripped, "*/"))
         ELSE IF startswith(stripped, "/*")
         THEN Counters(c.code, c.comment + 1, ~Contains(stripped, "*/"))
         ELSE IF startswith(stripped, "//")
         THEN Counters(c.code, c.comment + 1, c.in_multiline_comment)
         ELSE Counters(c.code + 1, c.comment, c.in_multiline_comment)
    ELSE IF suffix \in {".py", ".sh"}
    THEN IF startswith(stripped, "#")
              \/ startswith(stripped, "\"\"\"") \/ startswith(stripped, "'''")
         THEN Counters(c.code, c.comment + 1, c.in_multiline_comment)
         ELSE Counters(c.code + 1, c.comment, c.in_multiline_comment)
    ELSE IF suffix \in {".yaml", ".yml"}
    THEN IF startswith(stripped, "#")
         THEN Counters(c.code, c.comment + 1, c.in_multiline_comment)
         ELSE Counters(c.code + 1, c.comment, c.in_multiline_comment)
    ELSE Counters(c.code + 1, c.comment, c.in_multiline_comment)

RECURSIVE CountLines(_, _, _, _)
CountLines(suffix, lines, i, c) ==
    IF i > Len(lines) THEN c
    ELSE CountLines(suffix, lines, i + 1,
             IF strip(lines[i]) = "" THEN c ELSE CountLine(suffix, strip(lines[i]), c))

LineCounts(total, code, comment, blank) ==
    [total |-> total, code |-> code, comment |-> comment, blank |-> blank]

\* content: the lines content.splitlines() yields, or "OSError" when the file
\* cannot be read
count_lines(file_path, content) ==
    IF content = "OSError" THEN LineCounts(0, 0, 0, 0)
    ELSE LET counted == CountLines(lower(Suffix(file_path)), content, 1,
                                   Counters(0, 0, FALSE))
         IN  LineCounts(Len(content), counted.code, counted.comment,
                        Cardinality({i \in DOMAIN content : strip(content[i]) = ""}))

era_names == <<"ancient", "medieval", "wwii", "future">>

\* the loop of detect_era_from_path from era i on
RECURSIVE MatchEra(_, _)
MatchEra(path_str, i) ==
    IF i > Len(era_names) THEN "None"
    ELSE IF Contains(path_str, era_names[i]) THEN capitalize(era_names[i])
    ELSE MatchEra(path_str, i + 1)

detect_era_from_path(file_path) == MatchEra(lower(PathStr(file_path)), 1)

--------------------------------------------------------------------------
(* project_stats: FileStats, CategoryStats, ProjectStats, collect_stats *)

FileStats(path, counts, size_bytes) ==
    [path |-> path, lines |-> counts.total, code_lines |-> counts.code,
     comment_lines |-> counts.comment, blank_lines |-> counts.blank,
     size_bytes |-> size_bytes]

CategoryStats(category) ==
    [category |-> category, file_count |-> 0, total_lines |-> 0, code_lines |-> 0,
     comment_lines |-> 0, blank_lines |-> 0, total_size_bytes |-> 0, files |-> <<>>]

\* list(EXTENSION_CATEGORIES.keys()) + ["other"]
CategoryNames ==
    [i \in 1..(Len(EXTENSION_CATEGORIES) + 1) |->
        IF i <= Len(EXTENSION_CATEGORIES) THEN EXTENSION_CATEGORIES[i].name ELSE "other"]

\* a dict str -> int without entries, a lookup with a default and an increment
EmptyCounts == [k \in {} |-> 0]
GetCount(counts, key) == IF key \in DOMAIN counts THEN counts[key] ELSE 0
Increment(counts, key) ==
    [k \in DOMAIN counts \cup {key} |->
        IF k = key THEN GetCount(counts, key) + 1 ELSE counts[k]]

\* the ProjectStats of collect_stats before its loop
ProjectStats(root_path) ==
    [root_path |-> root_path,
     categories |-> [c \in {CategoryNames[i] : i \in DOMAIN CategoryNames} |->
                        CategoryStats(c)],
     era_breakdown |-> [e \in {"Ancient", "Medieval", "WWII", "Future"} |-> EmptyCounts],
     directory_structure |-> EmptyCounts]

\* sum(field(cat) for cat in stats.categories.values()), from category i on
RECURSIVE SumCategories(_, _, _)
SumCategories(stats, field, i) ==
    IF i > Len(CategoryNames) THEN 0
    ELSE stats.categories[CategoryNames[i]][field] + SumCategories(stats, field, i + 1)

total_files(stats) == SumCategories(stats, "file_count", 1)
total_lines(stats) == SumCategories(stats, "total_lines", 1)
total_size_bytes(stats) == SumCategories(stats, "total_size_bytes", 1)

skip_dirs == {".git", "node_modules", "__pycache__", ".pytest_cache", "Library",
              "Temp", "Logs", "obj"}

\* any(part.startswith(".") for part in parts)
AnyHidden(parts) == \E i \in DOMAIN parts : startswith(parts[i], ".")

\* the two tests that make the loop pass over a file
Skipped(parts) ==
    \/ AnyHidden(parts) /\ ~InParts(".git", parts)
    \/ \E skip_dir \in skip_dirs : InParts(skip_dir, parts)

\* the category update of the loop
AddToCategory(cat_stats, file_stats) ==
    [cat_stats EXCEPT !.file_count = @ + 1,
                      !.total_lines = @ + file_stats.lines,
                      !.code_lines = @ + file_stats.code_lines,
                      !.comment_lines = @ + file_stats.comment_lines,
                      !.blank_lines = @ + file_stats.blank_lines,
                      !.total_size_bytes = @ + file_stats.size_bytes,
                      !.files = Append(@, file_stats)]

\* the directory update of the loop
AddToDirectories(directory_structure, root_path, file_path) ==
    IF Len(file_path) > Len(root_path)
    THEN LET relative_parts == SubSeq(file_path, Len(root_path) + 1, Len(file_path))
         IN  IF Len(relative_parts) >= 1 /\ relative_parts[1] \notin skip_dirs
             THEN Increment(directory_structure, relative_parts[1])
             ELSE directory_structure
    ELSE directory_structure

\* one pass of collect_stats' loop, over one entry that rglob("*") yields; an
\* era that is no key of era_breakdown raises KeyError
CollectFile(stats, entry) ==
    LET file_path == stats.root_path \o entry.parts
    IN  IF ~entry.is_file \/ Skipped(file_path) THEN Return(stats)
        ELSE LET category == get_category(file_path)
                 size == IF entry.stat.ok THEN entry.stat.st_size ELSE 0
                 counts == IF category \in {"code", "config", "docs"}
                           THEN count_lines(file_path, entry.content)
                           ELSE LineCounts(0, 0, 0, 0)
                 file_stats == FileStats(file_path, counts, size)
                 counted == [stats EXCEPT !.categories[category] =
                                              AddToCategory(@, file_stats)]
                 era == detect_era_from_path(file_path)
             IN  IF era # "None" /\ era \notin DOMAIN counted.era_breakdown
                 THEN Raise("KeyError")
                 ELSE Return(
                     [counted EXCEPT
                         !.era_breakdown =
                             IF era = "None" THEN @
                             ELSE [@ EXCEPT ![era] = Increment(@, category)],
                         !.directory_structure =
                             AddToDirectories(@, stats.root_path, file_path)])

RECURSIVE CollectFiles(_, _, _)
CollectFiles(stats, listing, i) ==
    IF i > Len(listing) THEN Return(stats)
    ELSE LET collected == CollectFile(stats, listing[i])
         IN  IF collected.exc # "None" THEN Raise(collected.exc)
             ELSE CollectFiles(collected.ret, listing, i + 1)

\* listing: what root_path.rglob("*") yields, in its order
collect_stats(root_path, listing) == CollectFiles(ProjectStats(root_path), listing, 1)

Stat(st_size) == [ok |-> TRUE, st_size |-> st_size]
RegularFile(parts, st_size, content) ==
    [parts |-> parts, is_file |-> TRUE, stat |-> Stat(st_size), content |-> content]
Directory(parts) ==
    [parts |-> parts, is_file |-> FALSE, stat |-> Stat(0), content |-> "OSError"]

\* entries of a project tree: their path below the root, size and lines
ProjectFiles ==
    {RegularFile(<<"build.py">>, 55,
                 <<"#!/usr/bin/env python3", "\"\"\"Build.\"\"\"", "", "import os", "  # done">>),
     RegularFile(<<"README.md">>, 16, <<"# Relic", "", "A game.">>),
     RegularFile(<<".gitignore">>, 8, <<"Library/">>),
     RegularFile(<<".github", "ci.yml">>, 13, <<"# ci", "on: push">>),
     RegularFile(<<".git", "config">>, 6, <<"[core]">>),
     RegularFile(<<"src", "__pycache__", "build.pyc">>, 120, "OSError"),
     RegularFile(<<"Library", "cache.json">>, 2, <<"{}">>),
     RegularFile(<<"Assets", "Scripts", "Unit.cs">>, 57,
                 <<"/* Unit", " * of an army */", "// fields", "public class Unit {", "", "}">>),
     RegularFile(<<"Assets", "Art", "Ancient", "warrior.fbx">>, 2048, "OSError"),
     RegularFile(<<"Assets", "Art", "WWII", "tank.png">>, 1024, "OSError"),
     RegularFile(<<"configs", "eras", "medieval_future.yaml">>, 34,
                 <<"# eras", "name: Medieval", "next: Future">>),
     RegularFile(<<"Assets", "Models", "crate.obj">>, 7, <<"v 0 0 0">>),
     RegularFile(<<"docs", "notes">>, 4, <<"todo">>),
     Directory(<<"Assets">>),
     Directory(<<"docs">>)}

Roots == {<<"/", "srv", "relic">>, <<>>}

\* a listing of up to n more entries, none listed twice
RECURSIVE InitTree(_, _, _)
InitTree(root_path, listing, n) ==
    \/ input = [root_path |-> root_path, listing |-> listing]
    \/ /\ n > 0
       /\ \E f \in ProjectFiles :
             /\ \A i \in DOMAIN listing : listing[i] # f
             /\ InitTree(root_path, Append(listing, f), n - 1)

StatsInit ==
    /\ \E root_path \in Roots : InitTree(root_path, <<>>, MaxFiles)
    /\ output = ProjectStats(input.root_path)
    /\ pc = "ready"
    /\ call = NoCall
    /\ exc = "None"
    /\ file = NoFile
    /\ result = ValidationResult(NoFile.path, "None")
    /\ ret = "None"

\* collect_stats(root_path)
CollectStats ==
    /\ pc = "ready"
    /\ pc' = "done"
    /\ call' = [fn |-> "collect_stats", config_type |-> "None"]
    /\ LET returned == collect_stats(input.root_path, input.listing)
       IN  /\ exc' = returned.exc
           /\ output' = IF returned.exc = "None" THEN returned.ret ELSE output
    /\ UNCHANGED <<file, result, ret, input>>

StatsNext == CollectStats

StatsSpec == StatsInit /\ [][StatsNext]_vars

\* the entries of the listing that are regular files
RegularFiles == {i \in DOMAIN input.listing : input.listing[i].is_file}

\* the full path of entry i
FullPath(i) == input.root_path \o input.listing[i].parts

Categories == {CategoryNames[i] : i \in DOMAIN CategoryNames}

\* how often entry i occurs in the files list of a category
TimesCounted(i, category) ==
    Cardinality({j \in DOMAIN output.categories[category].files :
                    output.categories[category].files[j].path = FullPath(i)})

\* the files the statistics count
Counted == {i \in RegularFiles : \E c \in Categories : TimesCounted(i, c) >= 1}

\* the key of era_breakdown that stands for an era name
EraKey(era) == IF era = "wwii" THEN "WWII" ELSE capitalize(era)

\* C15: collect_stats returns for every tree; every name that
\* detect_era_from_path can return is a key of the era_breakdown it
\* initialised; and for each era and category, era_breakdown[era][category] is
\* the number of counted files of that category whose path contains the era's
\* name, whatever the case.
C15_EraBreakdownComplete ==
    Called("collect_stats") =>
        /\ exc = "None"
        /\ \A e \in DOMAIN era_names :
              capitalize(era_names[e]) \in DOMAIN ProjectStats(input.root_path).era_breakdown
        /\ \A e \in DOMAIN era_names : \A c \in Categories :
              GetCount(output.era_breakdown[EraKey(era_names[e])], c) =
                  Cardinality({i \in Counted :
                      /\ get_category(FullPath(i)) = c
                      /\ Contains(lower(PathStr(FullPath(i))), era_names[e])})

\* the file lies in a skipped directory: a directory on its path below the
\* root is named in skip_dirs
InSkippedDirectory(i) ==
    \E k \in 1..(Len(input.listing[i].parts) - 1) : input.listing[i].parts[k] \in skip_dirs

\* the sum of a field over a list of FileStats, from element j on
RECURSIVE SumFiles(_, _, _)
SumFiles(files, field, j) ==
    IF j > Len(files) THEN 0 ELSE files[j][field] + SumFiles(files, field, j + 1)

\* the sum of the categories' file_count, over a set of categories
RECURSIVE SumFileCount(_)
SumFileCount(categories) ==
    IF categories = {} THEN 0
    ELSE LET c == CHOOSE c \in categories : TRUE
         IN  output.categories[c].file_count + SumFileCount(categories \ {c})

\* C16: after collect_stats, every regular file in no skipped directory is in
\* the files list of exactly one category, once; a file in a skipped directory
\* is in none; total_files is the sum of the categories' file_count; and every
\* category's file_count, total_lines and total_size_bytes are the length of
\* its files list and the sums of lines and size_bytes over it.
C16_EveryFileCountedOnce ==
    (Called("collect_stats") /\ exc = "None") =>
        /\ \A i \in RegularFiles :
              IF InSkippedDirectory(i)
              THEN \A c \in Categories : TimesCounted(i, c) = 0
              ELSE /\ Cardinality({c \in Categories : TimesCounted(i, c) >= 1}) = 1
                   /\ \A c \in Categories : TimesCounted(i, c) <= 1
        /\ total_files(output) = SumFileCount(Categories)
        /\ \A c \in Categories :
              LET cat == output.categories[c]
              IN  /\ cat.file_count = Len(cat.files)
                  /\ cat.total_lines = SumFiles(cat.files, "lines", 1)
                  /\ cat.total_size_bytes = SumFiles(cat.files, "size_bytes", 1)

\* the top-level directories of the root: the first part of an entry that
\* lies deeper, and the entries directly below the root that are directories
TopLevelDirectories ==
    {input.listing[i].parts[1] : i \in {j \in DOMAIN input.listing :
        Len(input.listing[j].parts) >= 2 \/ ~input.listing[j].is_file}}

\* C17: after collect_stats, the keys of directory_structure are exactly the
\* top-level directories that hold counted files, each mapped to the number of
\* counted files below it at any depth; no key is anything but a top-level
\* directory.
C17_TopLevelDirectoriesOnly ==
    (Called("collect_stats") /\ exc = "None") =>
        /\ DOMAIN output.directory_structure \subseteq TopLevelDirectories
        /\ \A d \in TopLevelDirectories :
              GetCount(output.directory_structure, d) =
                  Cardinality({i \in Counted :
                      Len(input.listing[i].parts) >= 2 /\ input.listing[i].parts[1] = d})
        /\ \A d \in DOMAIN output.directory_structure : output.directory_structure[d] >= 1

--------------------------------------------------------------------------
(* build: PROFILES, TARGETS, check_prerequisites, generate_build_script *)

PROFILES ==
    [profile \in {"debug", "release", "profile"} |->
        CASE profile = "debug" ->
               [development |-> TRUE, allow_debugging |-> TRUE,
                compression |-> "None", il2cpp |-> FALSE]
          [] profile = "release" ->
               [development |-> FALSE, allow_debugging |-> FALSE,
                compression |-> "LZ4HC", il2cpp |-> TRUE]
          [] profile = "profile" ->
               [development |-> TRUE, allow_debugging |-> FALSE,
                compression |-> "LZ4", il2cpp |-> TRUE, profiler |-> TRUE]]

\* the targets in the order of TARGETS.items()
TargetNames == <<"quest3", "debug", "android">>

\* TARGETS on a machine whose platform.system() is system
TARGETS(system) ==
    [target \in {"quest3", "debug", "android"} |->
        CASE target = "quest3" ->
               [platform |-> "Android", extension |-> ".apk",
                scene |-> "Assets/Scenes/AR_Battlefield.unity",
                defines |-> <<"QUEST_3", "XR_ENABLED">>]
          [] target = "debug" ->
               [platform |-> IF system = "Linux" THEN "StandaloneLinux64"
                                                 ELSE "StandaloneWindows64",
                extension |-> IF system = "Linux" THEN ".x86_64" ELSE ".exe",
                scene |-> "Assets/Scenes/Flat_Debug.unity",
                defines |-> <<"DEBUG_MODE">>]
          [] target = "android" ->
               [platform |-> "Android", extension |-> ".apk",
                scene |-> "Assets/Scenes/AR_Battlefield.unity",
                defines |-> <<>>]]

\* project_root / relative
PathJoin(project_root, relative) == project_root \o "/" \o relative

\* path.exists(), fs being the set of the paths that exist
Exists(fs, path) == path \in fs

\* the loop over TARGETS.items() from target i on
RECURSIVE CheckScenes(_, _, _, _, _)
CheckScenes(system, project_root, fs, i, issues) ==
    IF i > Len(TargetNames) THEN issues
    ELSE LET target_config == TARGETS(system)[TargetNames[i]]
         IN  CheckScenes(system, project_root, fs, i + 1,
                 IF ~Exists(fs, PathJoin(project_root, target_config.scene))
                 THEN Append(issues,
                          Message("Scene not found for {target_name}: {target_config['scene']}",
                                  <<TargetNames[i], target_config.scene>>))
                 ELSE issues)

\* the check of the Unity executable
CheckUnity(unity_path, fs, issues) ==
    IF unity_path.t = "NoneType"
    THEN Append(issues,
             Message("Unity executable not found. Set UNITY_PATH environment variable.", <<>>))
    ELSE IF ~Exists(fs, unity_path.s)
    THEN Append(issues,
             Message("Unity executable not found at: {unity_path}", <<unity_path.s>>))
    ELSE issues

\* the checks of the project structure
CheckStructure(project_root, fs, issues) ==
    LET afterAssets ==
            IF ~Exists(fs, PathJoin(project_root, "Assets"))
            THEN Append(issues,
                     Message("Assets/ directory not found. Unity project may not be initialized.", <<>>))
            ELSE issues
    IN  IF ~Exists(fs, PathJoin(project_root, "ProjectSettings"))
        THEN Append(afterAssets,
                 Message("ProjectSettings/ directory not found. Unity project may not be initialized.", <<>>))
        ELSE afterAssets

\* check_prerequisites that returns at the first check that fails
check_prerequisites_fail_fast(system, unity_path, project_root, fs) ==
    IF CheckUnity(unity_path, fs, <<>>) # <<>> THEN CheckUnity(unity_path, fs, <<>>)
    ELSE IF CheckStructure(project_root, fs, <<>>) # <<>>
         THEN CheckStructure(project_root, fs, <<>>)
    ELSE CheckScenes(system, project_root, fs, 1, <<>>)

check_prerequisites(system, unity_path, project_root, fs) ==
    CheckScenes(system, project_root, fs, 1,
        CheckStructure(project_root, fs, CheckUnity(unity_path, fs, <<>>)))

\* profile_config.get(key): None, which is false, when the key is absent
ProfileGet(profile_config, key) ==
    IF key \in DOMAIN profile_config THEN profile_config[key] ELSE FALSE

\* Defines with DEVELOPMENT for every profile
DefinesAlwaysDevelopment(target_config, profile_config) ==
    target_config.defines \o <<"DEVELOPMENT">>

\* target_config["defines"] + (["DEVELOPMENT"] if development else [])
Defines(target_config, profile_config) ==
    target_config.defines
        \o (IF profile_config.development THEN <<"DEVELOPMENT">> ELSE <<>>)

\* the lines of the script text, which "\n" separates
ScriptLines(target_config, profile_config, output_path, defines_str) ==
        <<"",
          "using UnityEditor;",
          "using UnityEditor.Build.Reporting;",
          "using System;",
          "",
          "public class RelicBuildScript",
          "{",
          "    public static void Build()",
          "    {",
          "        string[] scenes = new string[] { \"" \o target_config.scene \o "\" };",
          "        string outputPath = \"" \o output_path \o "\";",
          "",
          "        BuildPlayerOptions buildOptions = new BuildPlayerOptions();",
          "        buildOptions.scenes = scenes;",
          "        buildOptions.locationPathName = outputPath;",
          "        buildOptions.target = BuildTarget." \o target_config.platform \o ";",
          "",
          "        BuildOptions options = BuildOptions.None;",
          "        " \o (IF profile_config.development THEN "options |= BuildOptions.Development;" ELSE ""),
          "        " \o (IF ProfileGet(profile_config, "allow_debugging") THEN "options |= BuildOptions.AllowDebugging;" ELSE ""),
          "        " \o (IF ProfileGet(profile_config, "profiler") THEN "options |= BuildOptions.EnableDeepProfilingSupport;" ELSE ""),
          "",
          "        buildOptions.options = options;",
          "",
          "        // Set scripting defines",
          "        PlayerSettings.SetScriptingDefineSymbolsForGroup(",
          "            BuildTargetGroup." \o target_config.platform \o ",",
          "            \"" \o defines_str \o "\"",
          "        );",
          "",
          "        BuildReport report = BuildPipeline.BuildPlayer(buildOptions);",
          "        BuildSummary summary = report.summary;",
          "",
          "        if (summary.result == BuildResult.Succeeded)",
          "        {",
          "            Console.WriteLine(\"Build succeeded: \" + summary.totalSize + \" bytes\");",
          "            EditorApplication.Exit(0);",
          "        }",
          "        else",
          "        {",
          "            Console.WriteLine(\"Build failed\");",
          "            EditorApplication.Exit(1);",
          "        }",
          "    }",
          "}",
          "">>

\* output_path is output_path.as_posix()
generate_build_script(system, project_root, target, profile, output_path) ==
    LET target_config == TARGETS(system)[target]
        profile_config == PROFILES[profile]
    IN  ScriptLines(target_config, profile_config, output_path,
                    Join(";", Defines(target_config, profile_config)))

UnityPath == "/opt/unity/6000.0.23f1/Editor/Unity"
ProjectRoot == "/srv/relic"

\* the paths of a project that check_prerequisites looks at
ProjectPaths ==
    {"Assets", "ProjectSettings", "Assets/Scenes",
     "Assets/Scenes/AR_Battlefield.unity", "Assets/Scenes/Flat_Debug.unity"}

\* a path exists only inside directories that exist
ParentsExist(paths) ==
    /\ "Assets/Scenes" \in paths => "Assets" \in paths
    /\ \A scene \in {"Assets/Scenes/AR_Battlefield.unity", "Assets/Scenes/Flat_Debug.unity"} :
          scene \in paths => "Assets/Scenes" \in paths

BuildInit ==
    /\ \E system \in {"Linux", "Windows", "Darwin"} :
       \E unity_path \in {PyNone, PyStr(UnityPath)} :
       \E unity_exists \in BOOLEAN :
       \E paths \in {ps \in SUBSET ProjectPaths : ParentsExist(ps)} :
       \E target \in DOMAIN TARGETS(system) :
       \E profile \in DOMAIN PROFILES :
          input = [system |-> system, unity_path |-> unity_path,
                   project_root |-> ProjectRoot,
                   fs |-> {PathJoin(ProjectRoot, path) : path \in paths}
                            \cup (IF unity_exists THEN {UnityPath} ELSE {}),
                   target |-> target, profile |-> profile,
                   output_path |-> PathJoin(ProjectRoot,
                       "Builds/relic_" \o target \o TARGETS(system)[target].extension)]
    /\ output = <<>>
    /\ pc = "ready"
    /\ call = NoCall
    /\ exc = "None"
    /\ file = NoFile
    /\ result = ValidationResult(NoFile.path, "None")
    /\ ret = "None"

\* check_prerequisites(unity_path, project_root)
CheckPrerequisites ==
    /\ pc = "ready"
    /\ pc' = "done"
    /\ call' = [fn |-> "check_prerequisites", config_type |-> "None"]
    /\ output' = check_prerequisites(input.system, input.unity_path,
                                     input.project_root, input.fs)
    /\ UNCHANGED <<file, result, ret, exc, input>>

\* generate_build_script(project_root, target, profile, output_path)
GenerateBuildScript ==
    /\ pc = "ready"
    /\ pc' = "done"
    /\ call' = [fn |-> "generate_build_script", config_type |-> "None"]
    /\ output' = generate_build_script(input.system, input.project_root, input.target,
                                       input.profile, input.output_path)
    /\ UNCHANGED <<file, result, ret, exc, input>>

BuildNext == CheckPrerequisites \/ GenerateBuildScript

BuildSpec == BuildInit /\ [][BuildNext]_vars

\* how many issues of the returned list are built from one of some templates
IssuesOf(fmts) == Cardinality({i \in DOMAIN output : output[i].fmt \in fmts})

UnityFmts == {"Unity executable not found. Set UNITY_PATH environment variable.",
              "Unity executable not found at: {unity_path}"}
AssetsFmt == "Assets/ directory not found. Unity project may not be initialized."
SettingsFmt == "ProjectSettings/ directory not found. Unity project may not be initialized."
SceneFmt == "Scene not found for {target_name}: {target_config['scene']}"

\* the checks that fail on the input
UnityMissing ==
    input.unity_path.t = "NoneType" \/ input.unity_path.s \notin input.fs
Missing(relative) == PathJoin(input.project_root, relative) \notin input.fs
SceneMissing(target) == Missing(TARGETS(input.system)[target].scene)
Flag(failed) == IF failed THEN 1 ELSE 0

\* C18: check_prerequisites returns one issue for the Unity executable iff it
\* is not given or does not exist, one for Assets and one for ProjectSettings
\* iff that directory does not exist, one for each target whose scene does
\* not exist, and nothing else, whatever the other checks found; so the list
\* is empty iff every check passes.
C18_OneIssuePerFailedCheck ==
    Called("check_prerequisites") =>
        /\ IssuesOf(UnityFmts) = Flag(UnityMissing)
        /\ IssuesOf({AssetsFmt}) = Flag(Missing("Assets"))
        /\ IssuesOf({SettingsFmt}) = Flag(Missing("ProjectSettings"))
        /\ \A target \in DOMAIN TARGETS(input.system) :
              Cardinality({i \in DOMAIN output :
                  output[i].fmt = SceneFmt /\ output[i].args[1] = target})
                  = Flag(SceneMissing(target))
        /\ Len(output) = IssuesOf(UnityFmts \cup {AssetsFmt, SettingsFmt, SceneFmt})
        /\ output = <<>> <=>
              /\ ~UnityMissing /\ ~Missing("Assets") /\ ~Missing("ProjectSettings")
              /\ \A target \in DOMAIN TARGETS(input.system) : ~SceneMissing(target)

\* with no Unity executable, no ProjectSettings and only one scene missing,
\* all of the failed checks were reported: Unity, ProjectSettings and the
\* scene's two targets
C18_Witness ==
    /\ Called("check_prerequisites")
    /\ UnityMissing /\ Missing("ProjectSettings") /\ ~Missing("Assets")
    /\ SceneMissing("quest3") /\ SceneMissing("android") /\ ~SceneMissing("debug")
    /\ Len(output) = 4

\* a line of the script, leading and trailing blanks apart
HasLine(text) == \E i \in DOMAIN output : strip(output[i]) = text

\* C19: for every target and profile the generated script has the line that
\* sets BuildOptions.Development iff the profile's development flag is true,
\* the line for AllowDebugging iff allow_debugging is true, the line for
\* EnableDeepProfilingSupport iff the profile has profiler, and passes as
\* scripting defines the target's defines followed by DEVELOPMENT iff
\* development is true, joined by ";".
C19_ScriptFollowsProfile ==
    Called("generate_build_script") =>
        LET profile_config == PROFILES[input.profile]
            target_config == TARGETS(input.system)[input.target]
            wanted == IF profile_config.development
                      THEN Append(target_config.defines, "DEVELOPMENT")
                      ELSE target_config.defines
        IN  /\ HasLine("options |= BuildOptions.Development;")
                  <=> profile_config.development
            /\ HasLine("options |= BuildOptions.AllowDebugging;")
                  <=> profile_config.allow_debugging
            /\ HasLine("options |= BuildOptions.EnableDeepProfilingSupport;")
                  <=> ("profiler" \in DOMAIN profile_config /\ profile_config.profiler)
            /\ HasLine("\"" \o Join(";", wanted) \o "\"")
            /\ Cardinality({i \in DOMAIN output :
                    Contains(output[i], "DEVELOPMENT")}) = Flag(profile_config.development)

\* the script of a release build for quest3 has none of the three option
\* lines and the target's defines alone
C19_Witness ==
    /\ Called("generate_build_script")
    /\ input.profile = "release" /\ input.target = "quest3"
    /\ HasLine("\"QUEST_3;XR_ENABLED\"")
    /\ ~HasLine("options |= BuildOptions.Development;")
    /\ HasLine("BuildOptions options = BuildOptions.None;")

--------------------------------------------------------------------------
(* A third specification of the validator, ReportSpec: validate_config is
   called on a document with several faults and then, into the same result,
   once more under a path prefix, as for a nested entry; validate_file is
   called on the same document *)

\* how many fields of a sample document are made faulty
MaxFaults == 2

\* the path prefixes the second call is made with
Prefixes == {"archetypes[0]"}

\* data with key put before every other key
InsertFirst(dict, key, value) == PyDict(<<Entry(key, value)>> \o dict.entries)

\* the fields a document of a kind is edited at, in the order of the edits:
\* the declared ones, the discriminator, and two the schema does not know
FaultFields(base) ==
    [i \in 1..Len(SCHEMAS[base].required_fields) |-> SCHEMAS[base].required_fields[i]]
    \o [i \in 1..Len(SCHEMAS[base].optional_fields) |-> SCHEMAS[base].optional_fields[i]]
    \o <<Field("type", Class("str")), Field("zeta", Class("str")),
         Field("alpha", Class("str"))>>

\* a field the schema of a kind requires
IsRequired(base, fld) ==
    \E i \in DOMAIN SCHEMAS[base].required_fields :
        SCHEMAS[base].required_fields[i] = fld

\* the faulty values of a declared field: of the wrong type, null when the
\* field is optional, a bool or a negative fraction where a number is
\* expected, a curve with points that are no pairs of numbers
FaultValues(base, fld) ==
    {IF fld.type = Class("str") THEN PyInt(5) ELSE PyStr("x")}
    \cup (IF IsRequired(base, fld) THEN {} ELSE {PyNone})
    \cup (IF \E i \in DOMAIN fld.type.names : fld.type.names[i] = "int"
          THEN {PyBool(TRUE), PyBool(FALSE), PyFloat(-1, 2)} ELSE {})
    \cup (IF endswith(fld.name, "_curve")
          THEN {PyList(<<PyList(<<PyStr("zero"), PyNone>>), PyInt(1)>>),
                PyList(<<PyList(<<PyBool(TRUE), PyBool(FALSE)>>)>>)}
          ELSE {})

\* the documents that differ from document d in the field fld: the field is
\* set to a faulty value or, when required, deleted; the discriminator names
\* no kind or the document's own; an undeclared field is put first or last
FaultsAt(base, d, fld) ==
    IF fld.name = "type"
    THEN {SetItem(d, "type", PyStr(v)) :
             v \in {"Era", "", lower(ConfigTypeValue(base))}}
    ELSE IF fld.name = "zeta" THEN {InsertFirst(d, "zeta", PyInt(1))}
    ELSE IF fld.name = "alpha" THEN {SetItem(d, "alpha", PyInt(1))}
    ELSE {SetItem(d, fld.name, v) : v \in FaultValues(base, fld)}
         \cup (IF IsRequired(base, fld) THEN {DelItem(d, fld.name)} ELSE {})

\* the file holds a sample document after at most n more faults, each in a
\* later field than the one before
RECURSIVE InitFaults(_, _, _, _)
InitFaults(base, d, from, n) ==
    \/ file = Loaded(d)
    \/ /\ n > 0
       /\ \E i \in from..Len(FaultFields(base)) :
             \E e \in FaultsAt(base, d, FaultFields(base)[i]) :
                 InitFaults(base, e, i + 1, n - 1)

ReportInit ==
    /\ \E base \in Kinds : InitFaults(base, SampleDocument(base), 1, MaxFaults)
    /\ input = ""
    /\ pc = "ready"
    /\ call = NoCall
    /\ result = ValidationResult(file.path, "None")
    /\ ret = "None"
    /\ exc = "None"
    /\ output = "None"

\* validate_config(data, config_type, result) on a fresh result; input is the
\* path prefix of the latest call
ValidateConfigAt(config_type) ==
    /\ pc = "ready"
    /\ pc' = "once"
    /\ call' = [fn |-> "validate_config", config_type |-> config_type]
    /\ result' = validate_config(file.data, config_type, result, input)
    /\ UNCHANGED <<file, ret, exc, input, output>>

\* validate_config(data, config_type, result, path_prefix) into the result
\* of the first call
ValidateConfigAgain(path_prefix) ==
    /\ pc = "once"
    /\ pc' = "done"
    /\ input' = path_prefix
    /\ result' = validate_config(file.data, call.config_type, result, path_prefix)
    /\ UNCHANGED <<file, call, ret, exc, output>>

ReportNext ==
    \/ \E c \in Kinds \cup {"None"} : ValidateConfigAt(c)
    \/ \E p \in Prefixes : ValidateConfigAgain(p)
    \/ ValidateFile

ReportSpec == ReportInit /\ [][ReportNext]_vars

--------------------------------------------------------------------------
(* Properties of ReportSpec *)

\* validate_config has returned once, for a kind, or twice
ReportedAs(config_type) ==
    pc = "once" /\ call.fn = "validate_config" /\ call.config_type = config_type
ReportedTwiceAs(config_type) ==
    pc = "done" /\ call.fn = "validate_config" /\ call.config_type = config_type

\* a path without the prefix of the call and the dot after it
Relative(path) ==
    IF input = "" THEN path ELSE SubSeq(path, Len(input) + 2, Len(path))

\* where the first "[" of a text is, from position i on; 0 if nowhere
RECURSIVE FindBracket(_, _)
FindBracket(text, i) ==
    IF i > Len(text) THEN 0
    ELSE IF SubSeq(text, i, i) = "[" THEN i
    ELSE FindBracket(text, i + 1)

\* the field a relative path lies at or below, and the indexes after it
FieldOf(rel) ==
    IF FindBracket(rel, 1) = 0 THEN rel ELSE SubSeq(rel, 1, FindBracket(rel, 1) - 1)
IndexesOf(rel) ==
    IF FindBracket(rel, 1) = 0 THEN "" ELSE SubSeq(rel, FindBracket(rel, 1), Len(rel))

Digit(char) == CHOOSE n \in 0..9 : ToString(n) = char

\* the fields of a kind in declaration order, required before optional
Declaration(config_type) ==
    [i \in 1..Len(SCHEMAS[config_type].required_fields) |->
        SCHEMAS[config_type].required_fields[i].name]
    \o [i \in 1..Len(SCHEMAS[config_type].optional_fields) |->
        SCHEMAS[config_type].optional_fields[i].name]

DeclaredAt(config_type, field) ==
    CHOOSE i \in DOMAIN Declaration(config_type) : Declaration(config_type)[i] = field

PointFmts == {"Each curve point must be [x, y]",
              "X value must be numeric, got {type(x_val).__name__}",
              "Y value must be numeric, got {type(y_val).__name__}"}

\* the place of an error in the order of the report: by field in declaration
\* order, then the missing or type error, the minimum, the maximum, and the
\* curve errors by index and component
Place(config_type, error) ==
    LET rel == Relative(error.path)
        indexes == IndexesOf(rel)
        fmt == error.message.fmt
    IN  DeclaredAt(config_type, FieldOf(rel)) * 1000
        + (IF fmt \in TypeFmts \cup {MissingFmt} THEN 100
           ELSE IF fmt = BelowFmt THEN 200
           ELSE IF fmt = AboveFmt THEN 300
           ELSE 400)
        + (IF fmt \in PointFmts THEN Digit(SubSeq(indexes, 2, 2)) * 10 ELSE 0)
        + (IF fmt \in PointFmts /\ Len(indexes) > 3
           THEN Digit(SubSeq(indexes, 5, 5)) + 1 ELSE 0)

\* the errors are in the order of the report, none twice
InOrder(config_type, errors) ==
    /\ \A i \in DOMAIN errors :
          /\ errors[i].severity = "error"
          /\ FieldOf(Relative(errors[i].path)) \in
                 RequiredNames(config_type) \cup OptionalNames(config_type)
    /\ \A i \in 1..(Len(errors) - 1) :
          Place(config_type, errors[i]) < Place(config_type, errors[i + 1])

\* the fields of a document that validation checks the value of
Checked(d, config_type) ==
    {f \in RequiredNames(config_type) : HasKey(d, f)}
    \cup {f \in OptionalNames(config_type) : HasKey(d, f) /\ ~IsNull(d, f)}

TypeOf(config_type, field) ==
    LET fields == SCHEMAS[config_type].required_fields
                      \o SCHEMAS[config_type].optional_fields
    IN  fields[CHOOSE i \in DOMAIN fields : fields[i].name = field].type

\* the curve errors owed to the optional fields from the i-th on
RECURSIVE CurveProblemsFrom(_, _, _)
CurveProblemsFrom(d, config_type, i) ==
    IF i > Len(SCHEMAS[config_type].optional_fields) THEN 0
    ELSE LET f == SCHEMAS[config_type].optional_fields[i].name
         IN  (IF CurveChecked(d, config_type, f) THEN CurveProblems(GetItem(d, f)) ELSE 0)
             + CurveProblemsFrom(d, config_type, i + 1)

\* how many errors a document owes: one for each missing required field, for
\* each checked value of the wrong type, for each out of range, and the curve
\* errors
Owed(d, config_type) ==
    Cardinality(MissingRequired(d, config_type))
    + Cardinality({f \in Checked(d, config_type) :
                      ~Accepts(TypeOf(config_type, f), GetItem(d, f))})
    + Cardinality({f \in Checked(d, config_type) :
                      ~WithinRange(config_type, f, GetItem(d, f))})
    + CurveProblemsFrom(d, config_type, 1)

\* the fields of a document the schema does not declare, in document order
Undeclared(d, config_type) ==
    SelectSeq(Keys(d), LAMBDA k : k \notin Declared(config_type))

\* the warnings are one for each undeclared field, in document order
WarningsInOrder(d, config_type, warnings) ==
    /\ Len(warnings) = Len(Undeclared(d, config_type))
    /\ \A i \in DOMAIN warnings :
          /\ warnings[i].severity = "warning"
          /\ warnings[i].message.args = <<Undeclared(d, config_type)[i]>>
          /\ Relative(warnings[i].path) = Undeclared(d, config_type)[i]

\* the first half and the second half of a sequence of even length
FirstHalf(seq) == SubSeq(seq, 1, Len(seq) \div 2)
SecondHalf(seq) == SubSeq(seq, Len(seq) \div 2 + 1, Len(seq))

\* the second half of a sequence of errors or warnings is the first half
\* again, each path under the prefix of the second call
RepeatedUnderPrefix(entries) ==
    /\ Len(entries) % 2 = 0
    /\ \A i \in DOMAIN FirstHalf(entries) :
          /\ SecondHalf(entries)[i].path = input \o "." \o FirstHalf(entries)[i].path
          /\ SecondHalf(entries)[i].message = FirstHalf(entries)[i].message
          /\ SecondHalf(entries)[i].severity = FirstHalf(entries)[i].severity

\* C21: validate_config collects every problem of a document in one pass and
\* in a fixed order: the errors of the required fields in declaration order,
\* then those of the optional fields in declaration order, for each field the
\* type error, then the constraint error, then the curve errors by increasing
\* index; the warnings are the undeclared fields in document order. A second
\* call into the same result appends its report, in the same order, after
\* the first and leaves the first in place.
C21_ReportOrder ==
    \A c \in Kinds :
        /\ ReportedAs(c) =>
              /\ InOrder(c, result.errors)
              /\ Len(result.errors) = Owed(file.data, c)
              /\ WarningsInOrder(file.data, c, result.warnings)
        /\ ReportedTwiceAs(c) =>
              /\ Len(result.errors) = 2 * Owed(file.data, c)
              /\ InOrder(c, SecondHalf(result.errors))
              /\ RepeatedUnderPrefix(result.errors)
              /\ WarningsInOrder(file.data, c, SecondHalf(result.warnings))
              /\ RepeatedUnderPrefix(result.warnings)

\* a document was validated twice into one result; the report of each call
\* has errors at two required fields, then an error at an optional field,
\* and warns of the undeclared field put first in the document before any
\* other
C21_Witness ==
    \E c \in Kinds :
        /\ ReportedTwiceAs(c)
        /\ \E i, j, k \in DOMAIN SecondHalf(result.errors) :
              LET field(n) == FieldOf(Relative(SecondHalf(result.errors)[n].path))
              IN  /\ i < j /\ j < k
                  /\ field(i) \in RequiredNames(c)
                  /\ field(j) \in RequiredNames(c)
                  /\ field(k) \in OptionalNames(c)
        /\ Len(result.warnings) >= 4
        /\ result.warnings[1].message.args = <<"zeta">>

\* the path of a field under the prefix of the call
At(field) == IF input = "" THEN field ELSE input \o "." \o field

\* a bool as a number
AsNumber(b) == IF b THEN 1 ELSE 0

\* the fields of a kind declared int or int-or-float that the document holds
\* with a bool
BoolFields(d, config_type) ==
    {f \in Checked(d, config_type) :
        /\ GetItem(d, f).t = "bool"
        /\ \E i \in DOMAIN TypeOf(config_type, f).names :
              TypeOf(config_type, f).names[i] = "int"}

\* the curve fields that validation checks and whose points are all pairs of
\* bools
BoolCurves(d, config_type) ==
    {f \in OptionalNames(config_type) :
        /\ CurveChecked(d, config_type, f)
        /\ Len(GetItem(d, f).items) > 0
        /\ \A i \in DOMAIN GetItem(d, f).items :
              /\ IsPair(GetItem(d, f), i)
              /\ GetItem(d, f).items[i].items[1].t = "bool"
              /\ GetItem(d, f).items[i].items[2].t = "bool"}

\* C22: a bool is treated as a number. In a field declared int or
\* int-or-float it draws no type error and is constraint-checked as 0 or 1:
\* one "below minimum" error iff 0 or 1 is less than the field's minimum, one
\* "exceeds maximum" error iff it is more than the maximum; bool components
\* of a curve point draw no error. For shots_per_burst (minimum 1), false
\* yields exactly one error, the "below minimum" one, and true yields none.
C22_BoolIsNumber ==
    \A c \in Kinds :
        ReportedAs(c) =>
            /\ \A f \in BoolFields(file.data, c) :
                  LET b == AsNumber(GetItem(file.data, f).b)
                      constrained == /\ "constraints" \in DOMAIN SCHEMAS[c]
                                     /\ f \in DOMAIN SCHEMAS[c].constraints
                      range == SCHEMAS[c].constraints[f]
                  IN  /\ TypeErrorsAt(result, At(f)) = 0
                      /\ ErrorsOf(result, At(f), BelowFmt) =
                            IF constrained /\ b * Denom(range.min) < Numer(range.min)
                            THEN 1 ELSE 0
                      /\ ErrorsOf(result, At(f), AboveFmt) =
                            IF constrained /\ b * Denom(range.max) > Numer(range.max)
                            THEN 1 ELSE 0
                      /\ ErrorsAt(result, At(f)) =
                            ErrorsOf(result, At(f), BelowFmt)
                                + ErrorsOf(result, At(f), AboveFmt)
            /\ \A f \in BoolCurves(file.data, c) : ErrorsUnder(result, At(f)) = 0
            /\ (c = "WEAPON_STATS" /\ "shots_per_burst" \in BoolFields(file.data, c)) =>
                  ErrorsAt(result, At("shots_per_burst")) =
                      IF GetItem(file.data, "shots_per_burst").b THEN 0 ELSE 1

\* a weapon with shots_per_burst false and a curve of bools was validated:
\* the one error at shots_per_burst is the "below minimum" one
C22_Witness ==
    /\ ReportedAs("WEAPON_STATS")
    /\ "shots_per_burst" \in BoolFields(file.data, "WEAPON_STATS")
    /\ ~GetItem(file.data, "shots_per_burst").b
    /\ ErrorsOf(result, At("shots_per_burst"), BelowFmt) = 1
    /\ ErrorsAt(result, At("shots_per_burst")) = 1
    /\ BoolCurves(file.data, "WEAPON_STATS") # {}

\* the document has a type field holding a string that names no kind
UnmatchedType(d) ==
    /\ HasKey(d, "type")
    /\ GetItem(d, "type").t = "str"
    /\ \A c \in Kinds : ~SameIgnoringCase(GetItem(d, "type").s, ConfigTypeValue(c))

UndetectedFmt ==
    "Unable to detect config type. Add 'type' field or use recognizable field names."

\* an error or a warning about the type field
AboutType(entry) ==
    \/ entry.path = "type"
    \/ /\ entry.message.fmt \in {MissingFmt, "Unknown field '{field_name}'"}
       /\ entry.message.args = <<"type">>

\* C23: for a document whose type field is a string matching no kind name,
\* validate_file raises nothing and falls through to the structural
\* heuristics: when they give no kind the result is the single root error of
\* an undetectable document; when they give a kind the result carries that
\* kind and exactly the errors and warnings the document owes under it, none
\* of them about the type field.
C23_UnmatchedTypeFallsThrough ==
    (Called("validate_file") /\ UnmatchedType(file.data)) =>
        LET kind == ByPriority(file.data)
        IN  /\ exc = "None"
            /\ result.config_type = kind
            /\ IF kind = "None"
               THEN /\ Len(result.errors) = 1
                    /\ result.errors[1].path = "root"
                    /\ result.errors[1].message.fmt = UndetectedFmt
                    /\ Len(result.warnings) = 0
               ELSE /\ Len(result.errors) = Owed(file.data, kind)
                    /\ Len(result.warnings) = Len(Undeclared(file.data, kind))
                    /\ \A i \in DOMAIN result.errors : ~AboutType(result.errors[i])
                    /\ \A i \in DOMAIN result.warnings : ~AboutType(result.warnings[i])

\* a weapon whose type field reads "Era" was validated as a weapon, with an
\* error for another field and nothing about the type
C23_Witness ==
    /\ Called("validate_file")
    /\ UnmatchedType(file.data)
    /\ GetItem(file.data, "type").s = "Era"
    /\ result.config_type = "WEAPON_STATS"
    /\ Len(result.errors) > 0
    /\ \A i \in DOMAIN result.errors : ~AboutType(result.errors[i])
    /\ Len(result.warnings) = 0

UnknownFieldFmt == "Unknown field '{field_name}'"
UnknownKindFmt == "Unknown config type: {config_type}"
PointFmt == "Each curve point must be [x, y]"
XFmt == "X value must be numeric, got {type(x_val).__name__}"
YFmt == "Y value must be numeric, got {type(y_val).__name__}"

\* the path of element i (counted from 0) of a field, and of its components
PointAt(field, i) == At(field) \o "[" \o ToString(i) \o "]"
ComponentAt(field, i, j) == PointAt(field, i) \o "[" \o ToString(j) \o "]"

\* the errors at a path built from one message template, about one field
Located(d, config_type, error) ==
    \E f \in RequiredNames(config_type) \cup OptionalNames(config_type) :
        \/ /\ error.message.fmt = MissingFmt
           /\ error.message.args = <<f>>
           /\ error.path = At(f)
        \/ /\ error.message.fmt \in TypeFmts \cup {BelowFmt, AboveFmt}
           /\ error.path = At(f)
        \/ /\ error.message.fmt \in PointFmts
           /\ CurveChecked(d, config_type, f)
           /\ \E i \in DOMAIN GetItem(d, f).items :
                 \/ error.message.fmt = PointFmt /\ error.path = PointAt(f, i - 1)
                 \/ error.message.fmt = XFmt /\ error.path = ComponentAt(f, i - 1, 0)
                 \/ error.message.fmt = YFmt /\ error.path = ComponentAt(f, i - 1, 1)

\* every problem of a document is reported at the path of its field
ReportedInPlace(d, config_type, res) ==
    /\ \A f \in MissingRequired(d, config_type) : ErrorsOf(res, At(f), MissingFmt) = 1
    /\ \A f \in Checked(d, config_type) :
          /\ ~Accepts(TypeOf(config_type, f), GetItem(d, f)) =>
                 TypeErrorsAt(res, At(f)) = 1
          /\ ~WithinRange(config_type, f, GetItem(d, f)) =>
                 ErrorsOf(res, At(f), BelowFmt) + ErrorsOf(res, At(f), AboveFmt) = 1
    /\ \A f \in OptionalNames(config_type) :
          CurveChecked(d, config_type, f) =>
              \A i \in DOMAIN GetItem(d, f).items :
                  LET value == GetItem(d, f)
                  IN  /\ ~IsPair(value, i) => ErrorsOf(res, PointAt(f, i - 1), PointFmt) = 1
                      /\ (IsPair(value, i) /\ ~Numeric(value.items[i].items[1])) =>
                             ErrorsOf(res, ComponentAt(f, i - 1, 0), XFmt) = 1
                      /\ (IsPair(value, i) /\ ~Numeric(value.items[i].items[2])) =>
                             ErrorsOf(res, ComponentAt(f, i - 1, 1), YFmt) = 1
    /\ \A i \in DOMAIN Keys(d) :
          Keys(d)[i] \notin Declared(config_type) => WarningsAt(res, At(Keys(d)[i])) = 1

\* every error and warning of a report lies at the path of its field under
\* the prefix of the call, and every problem of the document is found there
PathsInPlace(d, config_type, res) ==
    /\ \A i \in DOMAIN res.errors : Located(d, config_type, res.errors[i])
    /\ \A i \in DOMAIN res.warnings :
          /\ res.warnings[i].message.fmt = UnknownFieldFmt
          /\ res.warnings[i].path = At(res.warnings[i].message.args[1])
    /\ ReportedInPlace(d, config_type, res)
    /\ \A i \in DOMAIN (res.errors \o res.warnings) :
          LET path == (res.errors \o res.warnings)[i].path
          IN  /\ ~startswith(path, ".")
              /\ input # "" => startswith(path, input \o ".")

\* the report of the latest call: all of the result after the first call, its
\* second half after the second
Latest(res) ==
    IF pc = "once" THEN res
    ELSE [res EXCEPT !.errors = SecondHalf(@), !.warnings = SecondHalf(@)]

\* C24: validate_config reports every error and warning of a field f at the
\* path f when the prefix is empty and at <prefix>.f when it is not; curve
\* errors extend the path of the field with [i], [i][0] or [i][1]; the failure
\* to find a schema is reported at the prefix itself, or at root when the
\* prefix is empty; no path begins with a dot or leaves the prefix out.
C24_PathsUnderPrefix ==
    /\ (ReportedAs("None") \/ ReportedTwiceAs("None")) =>
          /\ Len(Latest(result).errors) = 1
          /\ Latest(result).errors[1].path = (IF input = "" THEN "root" ELSE input)
          /\ Latest(result).errors[1].message.fmt = UnknownKindFmt
          /\ Len(result.warnings) = 0
    /\ \A c \in Kinds :
          (ReportedAs(c) \/ ReportedTwiceAs(c)) =>
              PathsInPlace(file.data, c, Latest(result))

\* under the prefix archetypes[0], a curve with a first point of two
\* non-numbers and a second element that is no point was reported at
\* archetypes[0].range_curve[0][0], [0][1] and [1], and an undeclared field
\* at archetypes[0].zeta
C24_Witness ==
    /\ ReportedTwiceAs("WEAPON_STATS")
    /\ input = "archetypes[0]"
    /\ ErrorsAt(result, "archetypes[0].range_curve[0][0]") = 1
    /\ ErrorsAt(result, "archetypes[0].range_curve[0][1]") = 1
    /\ ErrorsAt(result, "archetypes[0].range_curve[1]") = 1
    /\ WarningsAt(result, "archetypes[0].zeta") = 1

--------------------------------------------------------------------------
(* A specification of count_lines, LinesSpec: the file is read, the loop
   takes its lines one at a time, and the four counts are returned *)

\* how many lines a file has at most
MaxLines == 3

\* the lines of the files: blank, C# comments opened, closed and both, code
\* with and without a comment after it, a hash comment, a docstring, and a
\* comment after U+001F, which splitlines() keeps and strip() removes
SourceLines ==
    {"", " \t", "// note", "  /* open", "close */ x", "/* one */", "int x;",
     "x(); /* tail", "# note", "'''doc", "// note"}

\* the files counted, one for each branch on the suffix
SourceFiles ==
    {<<"src", "Unit.CS">>, <<"run.sh">>, <<"eras.yml">>, <<"README.md">>,
     <<"notes.txt">>}

\* the position of the loop: the next line (from 1), the counters so far, and
\* the returned tuple once there is one
Loop(line, counters, returned) ==
    [line |-> line, counters |-> counters, ret |-> returned]

\* the file has the given lines, or up to n more
RECURSIVE InitLines(_, _, _)
InitLines(file_path, lines, n) ==
    \/ input = [file_path |-> file_path, content |-> lines]
    \/ /\ n > 0
       /\ \E l \in SourceLines : InitLines(file_path, Append(lines, l), n - 1)

LinesInit ==
    /\ \E file_path \in SourceFiles :
          \/ InitLines(file_path, <<>>, MaxLines)
          \/ input = [file_path |-> file_path, content |-> "OSError"]
    /\ output = Loop(1, Counters(0, 0, FALSE), "None")
    /\ pc = "ready"
    /\ call = NoCall
    /\ exc = "None"
    /\ file = NoFile
    /\ result = ValidationResult(NoFile.path, "None")
    /\ ret = "None"

\* file_path.read_text(...): the file cannot be read and zeros are returned
ReadFails ==
    /\ pc = "ready"
    /\ input.content = "OSError"
    /\ pc' = "done"
    /\ call' = [fn |-> "count_lines", config_type |-> "None"]
    /\ output' = [output EXCEPT !.ret = count_lines(input.file_path, input.content)]
    /\ UNCHANGED <<file, result, ret, exc, input>>

\* file_path.read_text(...) and content.splitlines()
ReadText ==
    /\ pc = "ready"
    /\ input.content # "OSError"
    /\ pc' = "loop"
    /\ call' = [fn |-> "count_lines", config_type |-> "None"]
    /\ UNCHANGED <<file, result, ret, exc, input, output>>

\* one pass of the loop over the lines
CountNextLine ==
    /\ pc = "loop"
    /\ output.line <= Len(input.content)
    /\ LET stripped == strip(input.content[output.line])
       IN  output' = Loop(output.line + 1,
                          IF stripped = "" THEN output.counters
                          ELSE CountLine(lower(Suffix(input.file_path)), stripped,
                                         output.counters),
                          "None")
    /\ UNCHANGED <<file, pc, call, result, ret, exc, input>>

\* return total, code, comment, blank
ReturnCounts ==
    /\ pc = "loop"
    /\ output.line > Len(input.content)
    /\ pc' = "done"
    /\ output' = [output EXCEPT !.ret =
                     LineCounts(Len(input.content), output.counters.code,
                                output.counters.comment,
                                Cardinality({i \in DOMAIN input.content :
                                                strip(input.content[i]) = ""}))]
    /\ UNCHANGED <<file, call, result, ret, exc, input>>

LinesNext == ReadFails \/ ReadText \/ CountNextLine \/ ReturnCounts

LinesSpec == LinesInit /\ [][LinesNext]_vars

--------------------------------------------------------------------------
(* Properties of LinesSpec *)

\* a line of nothing but whitespace
Blank(line) == \A k \in 1..Len(line) : SubSeq(line, k, k) \in Whitespace

\* the loop is about to take a line of a file whose suffix is ext
AtLineOf(ext) ==
    /\ pc = "loop"
    /\ output.line <= Len(input.content)
    /\ lower(Suffix(input.file_path)) = ext

\* the line the loop is about to take
NextLine == input.content[output.line]

\* the step counts the line as a comment, or as code
CountsComment ==
    /\ output'.counters.comment = output.counters.comment + 1
    /\ output'.counters.code = output.counters.code
CountsCode ==
    /\ output'.counters.code = output.counters.code + 1
    /\ output'.counters.comment = output.counters.comment

\* C28: on a .cs file count_lines is a two-state machine over the lines that
\* are not blank. In the comment state every line counts as a comment and
\* the state is left by a line that contains "*/". Outside it a line
\* starting with "/*" counts as a comment and enters the comment state iff it
\* contains no "*/"; a line starting with "//" counts as a comment and any
\* other line as code, both staying outside. A blank line changes neither
\* the counters nor the state.
C28_BlockCommentMachine ==
    [][AtLineOf(".cs") =>
          LET inside == output.counters.in_multiline_comment
              stays == output'.counters.in_multiline_comment
              text == strip(NextLine)
          IN  /\ output'.line = output.line + 1
              /\ IF Blank(NextLine) THEN output'.counters = output.counters
                 ELSE IF inside
                 THEN CountsComment /\ (stays <=> ~Contains(text, "*/"))
                 ELSE IF startswith(text, "/*")
                 THEN CountsComment /\ (stays <=> ~Contains(text, "*/"))
                 ELSE IF startswith(text, "//")
                 THEN CountsComment /\ ~stays
                 ELSE CountsCode /\ ~stays]_vars

\* in a .cs file a comment was opened, a blank line followed, and the loop is
\* still in the comment state before a third line that would be code outside
C28_Witness ==
    /\ AtLineOf(".cs")
    /\ output.line = 3
    /\ startswith(strip(input.content[1]), "/*")
    /\ Blank(input.content[2])
    /\ NextLine = "int x;"
    /\ output.counters.in_multiline_comment
    /\ output.counters.comment = 1

\* C29: the four numbers count_lines returns satisfy total = code + comments
\* + blank, total being the number of lines and blank the number of lines of
\* nothing but whitespace, whatever the extension; a file without lines and a
\* file that cannot be read give (0, 0, 0, 0).
C29_CountsAddUp ==
    (pc = "done" /\ call.fn = "count_lines") =>
        LET counts == output.ret
        IN  /\ counts.total = counts.code + counts.comment + counts.blank
            /\ counts.code >= 0 /\ counts.comment >= 0 /\ counts.blank >= 0
            /\ IF input.content = "OSError" \/ input.content = <<>>
               THEN counts = LineCounts(0, 0, 0, 0)
               ELSE /\ counts.total = Len(input.content)
                    /\ counts.blank =
                          Cardinality({i \in DOMAIN input.content :
                                          Blank(input.content[i])})
                    /\ counts = count_lines(input.file_path, input.content)

\* a shell script of a docstring line, a blank line and a line of code was
\* counted: three lines, one of each class
C29_Witness ==
    /\ pc = "done" /\ call.fn = "count_lines"
    /\ lower(Suffix(input.file_path)) = ".sh"
    /\ input.content # "OSError"
    /\ input.content = <<"'''doc", " \t", "int x;">>
    /\ output.ret = LineCounts(3, 1, 1, 1)

--------------------------------------------------------------------------
(* A specification of build.py's main, MainSpec: the argument parsing, the
   project root, the prerequisites, run_unity_build step by step (script
   written, Unity run, script removed) and install_apk step by step (adb
   found, devices listed, APK installed). input holds the command line and
   the machine, output the files and what each step returned *)

\* text.split(sep) for a separator of one character, from position i on, the
\* piece being built in acc
RECURSIVE SplitFrom(_, _, _, _)
SplitFrom(text, sep, i, acc) ==
    IF i > Len(text) THEN <<acc>>
    ELSE IF SubSeq(text, i, i) = sep
    THEN <<acc>> \o SplitFrom(text, sep, i + 1, "")
    ELSE SplitFrom(text, sep, i + 1, acc \o SubSeq(text, i, i))

split(text, sep) == SplitFrom(text, sep, 1, "")

\* value in items, for a list
InList(value, items) == \E i \in DOMAIN items : items[i] = value

\* what subprocess.run(cmd, capture_output=True, text=True, timeout=1800)
\* does: it returns a completed process, or raises. launched tells whether
\* the process was started, returncode is the exit code of the process, -1
\* when there was none
Completed(returncode, stdout) ==
    [raises |-> "None", launched |-> TRUE, returncode |-> returncode,
     stdout |-> stdout]
Raised(exception, launched, returncode) ==
    [raises |-> exception, launched |-> launched, returncode |-> returncode,
     stdout |-> ""]

\* the outcomes of running Unity: it exits with a code and its output is
\* returned; subprocess.run runs into the timeout, with Unity still running
\* and killed (exit code -9, or 1 where kill is TerminateProcess) or with
\* Unity gone with exit code 0 or 1 and a child of it holding the pipes; it
\* exits with a code and its output is no UTF-8, so that decoding it
\* (text=True) raises after the exit; it cannot be started
UnityOutcomes ==
    {Completed(0, ""), Completed(1, ""), Completed(2, ""),
     Raised("TimeoutExpired", TRUE, -9),
     Raised("TimeoutExpired", TRUE, 0), Raised("TimeoutExpired", TRUE, 1),
     Raised("UnicodeDecodeError", TRUE, 0), Raised("UnicodeDecodeError", TRUE, 1),
     Raised("FileNotFoundError", FALSE, -1)}

\* what `adb devices` prints: no device, one attached, one unauthorized and
\* one attached, one offline; and an output with a line that reads device
\* and nothing else, the only kind of line the test of install_apk takes
\* for a device
DevicesOutputs ==
    {"List of devices attached\n\n",
     "List of devices attached\n1WMHH810X\tdevice\n\n",
     "List of devices attached\nemulator-5554\tunauthorized\n1WMHH810X\tdevice\n\n",
     "List of devices attached\n1WMHH810X\toffline\n\n",
     "List of devices attached\ndevice\n\n"}

\* the outcomes of subprocess.run([adb_path, "devices"], text=True): adb
\* prints one of DevicesOutputs; it prints nothing and exits with code 1; its
\* output is no UTF-8, so that decoding it raises; it cannot be started
AdbDevicesOutcomes ==
    {Completed(0, stdout) : stdout \in DevicesOutputs}
    \cup {Completed(1, ""),
          Raised("UnicodeDecodeError", TRUE, 0),
          Raised("PermissionError", FALSE, -1)}

\* the outcomes of subprocess.run([adb_path, "install", "-r", apk], text=True):
\* adb exits with code 0 or 1; what it wrote is no UTF-8, so that decoding
\* it raises; it cannot be started
AdbInstallOutcomes ==
    {Completed(0, ""), Completed(1, ""),
     Raised("UnicodeDecodeError", TRUE, 0), Raised("UnicodeDecodeError", TRUE, 1),
     Raised("PermissionError", FALSE, -1)}

ScriptPath(project_root) == PathJoin(project_root, "Assets/Editor/RelicBuildScript.cs")
\* output_dir = args.output or (project_root / "Builds"); a Path is never
\* false, so --output is taken whenever it is given
OutputDir(args, project_root) ==
    IF args.output = PyNone THEN PathJoin(project_root, "Builds") ELSE args.output.s

\* output_dir / f"Relic_{target}_{profile}_{timestamp}{extension}"
OutputPath(system, output_dir, target, profile) ==
    PathJoin(output_dir,
             "Relic_" \o target \o "_" \o profile \o "_20260101_120000"
                 \o TARGETS(system)[target].extension)

\* list(output_dir.glob("*.apk")): the entries of output_dir itself whose
\* name ends in .apk, none from a directory below it
Apks(fs, output_dir) ==
    {path \in fs :
        /\ startswith(path, output_dir \o "/")
        /\ endswith(path, ".apk")
        /\ ~Contains(SubSeq(path, Len(output_dir) + 2, Len(path)), "/")}

\* the targets main's parser gives, "None" when no target is given
MainTargets == {"None", "check", "quest3", "debug", "android"}

\* hasattr(args, "install") and args.install
InstallAsked(args) == args.target \in {"quest3", "android"} /\ args.install

\* what the run has done and returned so far: the files, the issues, the
\* outcome of Unity and what run_unity_build returned, the adb found, what
\* `adb devices` printed, the exit code of `adb install -r` and what
\* install_apk returned; each is <<>> until it happens and <<value>> after,
\* and stays <<>> when the step raises instead of returning
Run(fs, issues, unity, build, adb, devices, adb_install, install) ==
    [fs |-> fs, issues |-> issues, unity |-> unity, build |-> build,
     adb |-> adb, devices |-> devices, adb_install |-> adb_install,
     install |-> install]

MainInit ==
    /\ \E system \in {"Linux", "Windows"} :
       \E target \in MainTargets :
       \E install \in BOOLEAN :
       \E profile \in {"debug", "release"} :
       \E root_found \in BOOLEAN :
       \E unity_path \in {PyNone, PyStr(UnityPath)} :
       \E paths \in {ProjectPaths, ProjectPaths \ {"Assets/Scenes/Flat_Debug.unity"}, {}} :
       \E output_arg \in {PyNone, PyStr("/out")} :
       \E stale \in {{}, {PathJoin(ProjectRoot, "Builds/Relic_old.apk")},
                      {PathJoin(ProjectRoot, "Builds/archive/old.apk")},
                      {"/out/old.apk"}} :
          /\ (install => target \in {"quest3", "android"})
          /\ (output_arg # PyNone => target \in {"quest3", "debug", "android"})
          /\ input = [system |-> system,
                      args |-> [target |-> target, install |-> install,
                                profile |-> profile, output |-> output_arg],
                      root_found |-> root_found,
                      unity_path |-> unity_path, project_root |-> ProjectRoot]
          /\ output = Run({PathJoin(ProjectRoot, path) : path \in paths}
                              \cup {UnityPath} \cup stale,
                          <<>>, <<>>, <<>>, <<>>, <<>>, <<>>, <<>>)
    /\ pc = "main"
    /\ call = NoCall
    /\ exc = "None"
    /\ file = NoFile
    /\ result = ValidationResult(NoFile.path, "None")
    /\ ret = "None"

\* main returns code
Exit(code) == pc' = "exit" /\ ret' = code /\ exc' = exc

\* an exception leaves install_apk and main, which has no try around it
Propagate(exception) == pc' = "raised" /\ ret' = ret /\ exc' = exception

\* args = parser.parse_args(); without a target the help is printed
ParseArgs ==
    /\ pc = "main"
    /\ call' = [fn |-> "main", config_type |-> "None"]
    /\ IF input.args.target = "None" THEN Exit(0)
       ELSE pc' = "root" /\ ret' = ret /\ exc' = exc
    /\ UNCHANGED <<file, result, input, output>>

\* get_project_root(), which raises RuntimeError when it finds no root
GetProjectRoot ==
    /\ pc = "root"
    /\ IF input.root_found THEN pc' = "check" /\ ret' = ret /\ exc' = exc ELSE Exit(1)
    /\ UNCHANGED <<file, call, result, input, output>>

\* issues = check_prerequisites(unity_path, project_root), and the two
\* returns on them
CheckIssues ==
    /\ pc = "check"
    /\ LET issues == check_prerequisites(input.system, input.unity_path,
                                         input.project_root, output.fs)
       IN  /\ output' = [output EXCEPT !.issues = <<issues>>]
           /\ IF input.args.target = "check"
              THEN Exit(IF Len(issues) > 0 THEN 1 ELSE 0)
              ELSE IF Len(issues) > 0 THEN Exit(1)
              ELSE pc' = "build" /\ ret' = ret /\ exc' = exc
    /\ UNCHANGED <<file, call, result, input>>

\* run_unity_build up to the try: the build directory and the script are made
WriteScript ==
    /\ pc = "build"
    /\ pc' = "unity"
    /\ output' = [output EXCEPT !.fs = @ \cup {OutputDir(input.args, input.project_root),
                                              PathJoin(input.project_root, "Assets/Editor"),
                                              ScriptPath(input.project_root)}]
    /\ UNCHANGED <<file, call, result, ret, exc, input>>

\* Unity was started: it exited, or it ran until the timeout
Launched(outcome) == outcome.launched

\* the try of run_unity_build: subprocess.run(cmd, timeout=1800) and the
\* returns on its outcome: 0 when it returns with exit code 0, 1 when it
\* returns with another code, 1 on TimeoutExpired and on any other
\* Exception. A Unity that was started may have written the build, whatever
\* subprocess.run then does. (The prints are taken to succeed.)
RunUnity(outcome, written) ==
    /\ pc = "unity"
    /\ pc' = "finally"
    /\ output' = [output EXCEPT
          !.unity = <<outcome>>,
          !.build = IF outcome.raises = "None" /\ outcome.returncode = 0
                    THEN <<0>> ELSE <<1>>,
          !.fs = IF written /\ Launched(outcome)
                 THEN @ \cup {OutputPath(input.system,
                                         OutputDir(input.args, input.project_root),
                                         input.args.target, input.args.profile)}
                 ELSE @]
    /\ UNCHANGED <<file, call, result, ret, exc, input>>

\* the finally of run_unity_build: the script is removed if it exists
RemoveScript ==
    /\ pc = "finally"
    /\ pc' = "built"
    /\ output' = [output EXCEPT !.fs = @ \ {ScriptPath(input.project_root)}]
    /\ UNCHANGED <<file, call, result, ret, exc, input>>

\* a main that installs whenever --install was given and an .apk exists,
\* whatever the build returned
AfterBuildInstallAlways ==
    /\ pc = "built"
    /\ IF /\ InstallAsked(input.args)
          /\ Apks(output.fs, OutputDir(input.args, input.project_root)) # {}
       THEN pc' = "install" /\ ret' = ret /\ exc' = exc
       ELSE Exit(output.build[1])
    /\ UNCHANGED <<file, call, result, input, output>>

\* main after the build: install if requested, else return the result
AfterBuild ==
    /\ pc = "built"
    /\ IF /\ output.build = <<0>>
          /\ InstallAsked(input.args)
          /\ Apks(output.fs, OutputDir(input.args, input.project_root)) # {}
       THEN pc' = "install" /\ ret' = ret /\ exc' = exc
       ELSE Exit(output.build[1])
    /\ UNCHANGED <<file, call, result, input, output>>

\* install_apk: shutil.which("adb")
FindAdb(adb_path) ==
    /\ pc = "install"
    /\ output' = [output EXCEPT !.adb = <<adb_path>>,
                                !.install = IF adb_path = PyNone THEN <<1>> ELSE @]
    /\ IF adb_path = PyNone THEN Exit(1)
       ELSE pc' = "devices" /\ ret' = ret /\ exc' = exc
    /\ UNCHANGED <<file, call, result, input>>

\* install_apk: subprocess.run([adb_path, "devices"]) and the test on its
\* output, whatever the exit code; an exception of subprocess.run is not
\* caught
ListDevices(outcome) ==
    /\ pc = "devices"
    /\ IF outcome.raises # "None"
       THEN Propagate(outcome.raises) /\ output' = output
       ELSE LET none == ~InList("device", Tail(split(outcome.stdout, "\n")))
            IN  /\ output' = [output EXCEPT !.devices = <<outcome.stdout>>,
                                            !.install = IF none THEN <<1>> ELSE @]
                /\ IF none THEN Exit(1)
                   ELSE pc' = "adb_install" /\ ret' = ret /\ exc' = exc
    /\ UNCHANGED <<file, call, result, input>>

\* install_apk: subprocess.run([adb_path, "install", "-r", apk_path]) and the
\* returns on its exit code; an exception of subprocess.run is not caught
InstallApk(outcome) ==
    /\ pc = "adb_install"
    /\ IF outcome.raises # "None"
       THEN Propagate(outcome.raises) /\ output' = output
       ELSE /\ output' = [output EXCEPT
                   !.adb_install = <<outcome.returncode>>,
                   !.install = IF outcome.returncode = 0 THEN <<0>> ELSE <<1>>]
            /\ Exit(IF outcome.returncode = 0 THEN 0 ELSE 1)
    /\ UNCHANGED <<file, call, result, input>>

MainNext ==
    \/ ParseArgs
    \/ GetProjectRoot
    \/ CheckIssues
    \/ WriteScript
    \/ \E outcome \in UnityOutcomes : \E written \in BOOLEAN : RunUnity(outcome, written)
    \/ RemoveScript
    \/ AfterBuild
    \/ \E adb_path \in {PyNone, PyStr("/usr/bin/adb")} : FindAdb(adb_path)
    \/ \E outcome \in AdbDevicesOutcomes : ListDevices(outcome)
    \/ \E outcome \in AdbInstallOutcomes : InstallApk(outcome)

MainSpec == MainInit /\ [][MainNext]_vars

(* Properties of MainSpec *)

\* run_unity_build has returned
BuildReturned ==
    \/ pc \in {"built", "install", "devices", "adb_install", "raised"}
    \/ pc = "exit" /\ output.unity # <<>>

\* the script is gone when run_unity_build has returned, it returned 0 or
\* 1, and 0 only when subprocess.run returned a process with exit code 0
ScriptRemovedOnReturn ==
    /\ (pc = "unity" => ScriptPath(input.project_root) \in output.fs)
    /\ BuildReturned =>
          /\ ScriptPath(input.project_root) \notin output.fs
          /\ output.build \in {<<0>>, <<1>>}
          /\ output.build = <<0>> <=>
                (output.unity[1].raises = "None" /\ output.unity[1].returncode = 0)

\* C25 as stated: once run_unity_build has written
\* Assets/Editor/RelicBuildScript.cs, the file is gone when the function
\* returns, whatever Unity did; the function returns 0 if and only if Unity
\* ran to completion with exit code 0, and 1 in every other case; no
\* exception of the subprocess leaves it.
C25_ScriptRemovedOnEveryExit ==
    /\ (pc = "unity" => ScriptPath(input.project_root) \in output.fs)
    /\ BuildReturned =>
          /\ ScriptPath(input.project_root) \notin output.fs
          /\ output.build \in {<<0>>, <<1>>}
          /\ output.build = <<0>> <=>
                (Launched(output.unity[1]) /\ output.unity[1].returncode = 0)
          /\ pc = "built" => exc = "None"

\* main is in run_unity_build, or was
BuildStarted == pc \in {"build", "unity", "finally"} \/ output.build # <<>>

\* main is in install_apk, or was
InstallStarted == pc \in {"install", "devices", "adb_install"} \/ output.adb # <<>>

\* main has returned for the target `check`
CheckReturned == pc = "exit" /\ input.args.target = "check"

\* C26 as stated, for the target `check`: it returns 1 if and only if
\* check_prerequisites reported issues.
C26_CheckReturnsOneIffIssues ==
    CheckReturned =>
        (ret = 1 <=> (output.issues # <<>> /\ output.issues[1] # <<>>))

\* C26: main's steps are gated in order. Without a target main returns 0,
\* and without a project root it returns 1 for every target, in both cases
\* before anything is checked or built. The build starts only for a build
\* target and only after check_prerequisites reported no issue, and reported
\* issues make main return 1 with nothing built; installation starts only
\* after a build that returned 0, with --install given and an .apk in the
\* output directory; the target `check` never builds and, the project root
\* found, returns 1 if and only if issues were reported (1 as well when no
\* project root is found, before anything is checked); after a build main
\* returns what install_apk returned if it ran, else what the build returned.
\* main ends without an exit code only inside install_apk, whose adb calls
\* may raise: then install_apk has returned nothing.
C26_StepsGated ==
    /\ BuildStarted =>
          /\ output.issues = << <<>> >>
          /\ input.args.target \in {"quest3", "debug", "android"}
    /\ (pc = "exit" /\ output.issues # <<>> /\ output.issues[1] # <<>>) =>
          ret = 1 /\ ~BuildStarted
    /\ InstallStarted =>
          /\ output.build = <<0>>
          /\ input.args.install
          /\ Apks(output.fs, OutputDir(input.args, input.project_root)) # {}
    /\ input.args.target = "check" => ~BuildStarted /\ ~InstallStarted
    /\ CheckReturned =>
          IF output.issues = <<>> THEN ~input.root_found /\ ret = 1
          ELSE ret = 1 <=> output.issues[1] # <<>>
    /\ (pc = "exit" /\ output.build # <<>>) =>
          /\ output.install # <<>> <=> InstallStarted
          /\ ret = IF InstallStarted THEN output.install[1] ELSE output.build[1]
    /\ output.issues # <<>> => input.args.target # "None" /\ input.root_found
    /\ (pc = "exit" /\ input.args.target = "None") =>
          ret = 0 /\ ~BuildStarted /\ ~InstallStarted
    /\ (pc = "exit" /\ input.args.target # "None" /\ ~input.root_found) =>
          ret = 1 /\ ~BuildStarted /\ ~InstallStarted
    /\ exc # "None" <=> pc = "raised"
    /\ pc = "raised" => InstallStarted /\ output.adb # <<PyNone>> /\ output.install = <<>>

\* the build returned 0, --install was given, the .apk is there, and no adb
\* is on the PATH: main returned install_apk's 1, not the build's 0
C26_Witness ==
    /\ pc = "exit"
    /\ input.args.install
    /\ output.issues = << <<>> >>
    /\ output.build = <<0>>
    /\ Apks(output.fs, OutputDir(input.args, input.project_root)) # {}
    /\ output.adb = <<PyNone>>
    /\ output.install = <<1>>
    /\ ret = 1

\* `adb devices` lists an attached device: a line <serial>\tdevice after
\* the header line
Attached(stdout) ==
    LET lines == split(stdout, "\n")
    IN  \E i \in 2..Len(lines) :
            endswith(lines[i], "\tdevice") /\ Len(lines[i]) > Len("\tdevice")

\* install_apk returned 1 from its device test ("No ADB device connected")
NoDeviceReturned ==
    output.devices # <<>> /\ output.adb_install = <<>> /\ output.install = <<1>>

\* C27 as stated: with adb found and an attached device listed, install_apk
\* goes on to `adb install -r` and returns 0 if and only if that exits 0;
\* it returns 1 for no device only when no attached device is listed.
C27_AttachedDeviceInstalls ==
    output.devices # <<>> =>
        /\ Attached(output.devices[1]) =>
              /\ pc = "adb_install" \/ output.adb_install # <<>>
              /\ pc = "exit" => (ret = 0 <=> output.adb_install = <<0>>)
        /\ NoDeviceReturned => ~Attached(output.devices[1])

--------------------------------------------------------------------------
(* A specification of config_validator.py's main, CliSpec: the commands
   validate and validate-all on a directory of config files. input is the
   directory and its listing as in DirectorySpec; call names the command,
   output is what the command was given and what it reported *)

\* the loop of validate-all over results from result i on: the totals and
\* the failed files so far
RECURSIVE Totals(_, _, _)
Totals(results, i, totals) ==
    IF i > Len(results) THEN totals
    ELSE Totals(results, i + 1,
                [total_errors |-> totals.total_errors + Len(results[i].errors),
                 total_warnings |-> totals.total_warnings + Len(results[i].warnings),
                 failed_files |-> IF is_valid(results[i]) THEN totals.failed_files
                                  ELSE Append(totals.failed_files, results[i].file_path)])

\* what a command was given and what it printed: the path argument, whether
\* it exists, the results and the line of totals
Report(path, exists, results, totals) ==
    [path |-> path, exists |-> exists, results |-> results, totals |-> totals]

NoTotals == [total_errors |-> 0, total_warnings |-> 0, failed_files |-> <<>>]

CliInit == DirectoryInit

\* main for `validate <file>`, the file being entry i of the listing
MainValidate(i) ==
    /\ pc = "ready"
    /\ pc' = "done"
    /\ call' = [fn |-> "validate", config_type |-> "None"]
    /\ LET file_path == input.directory \o input.listing[i].parts
           returned == LoadAndValidate(file_path, input.listing[i].content,
                                       input.yaml_available)
       IN  /\ exc' = returned.exc
           /\ output' = Report(file_path, TRUE,
                               IF returned.exc = "None" THEN <<returned.ret>> ELSE <<>>,
                               NoTotals)
           /\ ret' = IF returned.exc # "None" THEN ret
                     ELSE IF is_valid(returned.ret) THEN 0 ELSE 1
    /\ UNCHANGED <<file, result, input>>

\* main for `validate <file>`, no such file
MainValidateNotFound ==
    /\ pc = "ready"
    /\ pc' = "done"
    /\ call' = [fn |-> "validate", config_type |-> "None"]
    /\ output' = Report(input.directory \o <<"missing.json">>, FALSE, <<>>, NoTotals)
    /\ ret' = 1
    /\ UNCHANGED <<file, result, exc, input>>

\* main for `validate-all <directory>`
MainValidateAll ==
    /\ pc = "ready"
    /\ pc' = "done"
    /\ call' = [fn |-> "validate-all", config_type |-> "None"]
    /\ LET returned == validate_directory(input.directory, input.listing,
                                          input.yaml_available)
       IN  /\ exc' = returned.exc
           /\ IF returned.exc # "None"
              THEN /\ output' = Report(input.directory, TRUE, <<>>, NoTotals)
                   /\ ret' = ret
              ELSE IF returned.ret = <<>>
              THEN /\ output' = Report(input.directory, TRUE, <<>>, NoTotals)
                   /\ ret' = 0
              ELSE LET totals == Totals(returned.ret, 1, NoTotals)
                   IN  /\ output' = Report(input.directory, TRUE, returned.ret, totals)
                       /\ ret' = IF Len(totals.failed_files) > 0 THEN 1 ELSE 0
    /\ UNCHANGED <<file, result, input>>

\* main for `validate-all <directory>`, no such directory
MainValidateAllNotFound ==
    /\ pc = "ready"
    /\ pc' = "done"
    /\ call' = [fn |-> "validate-all", config_type |-> "None"]
    /\ output' = Report(<<"missing">>, FALSE, <<>>, NoTotals)
    /\ ret' = 1
    /\ UNCHANGED <<file, result, exc, input>>

CliNext ==
    \/ \E i \in DOMAIN input.listing : MainValidate(i)
    \/ MainValidateNotFound
    \/ MainValidateAll
    \/ MainValidateAllNotFound

CliSpec == CliInit /\ [][CliNext]_vars

(* Properties of CliSpec *)

\* the sum of numbers[1..n]
RECURSIVE SumTo(_, _)
SumTo(numbers, n) == IF n = 0 THEN 0 ELSE SumTo(numbers, n - 1) + numbers[n]

\* main returned, without an exception
Returned == exc = "None" /\ ret \in {0, 1}

\* C30 as stated, for a file and a directory that exist: validate returns 0
\* if the file's result has no errors, whatever its warnings, and 1
\* otherwise; validate-all returns 1 if and only if a validated file has an
\* error, 0 when there is no config file, and the totals it prints are the
\* sums of the errors and of the warnings of the results. For a file that
\* does not exist validate returns 1.
C30_ExitCodeReflectsValidity ==
    /\ (Called("validate") /\ output.exists) =>
          /\ Returned
          /\ Len(output.results) = 1
          /\ ret = 0 <=> Len(output.results[1].errors) = 0
    /\ (Called("validate") /\ ~output.exists) => Returned /\ ret = 1
    /\ (Called("validate-all") /\ output.exists) =>
          /\ Returned
          /\ Len(output.results) = Cardinality(Reportable)
          /\ ret = 1 <=> \E r \in DOMAIN output.results :
                            Len(output.results[r].errors) > 0
          /\ Reportable = {} => ret = 0
          /\ output.totals.total_errors =
                SumTo([r \in DOMAIN output.results |-> Len(output.results[r].errors)],
                      Len(output.results))
          /\ output.totals.total_warnings =
                SumTo([r \in DOMAIN output.results |-> Len(output.results[r].warnings)],
                      Len(output.results))

\* the same with main allowed to end in an exception of validate_file or
\* validate_directory: whenever main returns, C30 holds
ExitCodeReflectsValidityIfReturned ==
    (pc = "done" /\ exc = "None") => C30_ExitCodeReflectsValidity

============================================================================
